---- MODULE Spec2Model ----
(***************************************************************************)
(* The phrase-rendering pipeline of the song editor: the renderer facade   *)
(* (SongTrackRenderer), the task graph built by buildTaskGraph and the     *)
(* generic TaskGraphRunner that executes it.                               *)
(*                                                                         *)
(* One step of the model is one synchronous segment of the JavaScript     *)
(* code: the code between two suspension points (await) or between two     *)
(* points where an event listener, invoked synchronously by dispatchEvent, *)
(* can call back into the public API.                                      *)
(***************************************************************************)
EXTENDS Integers, Sequences, FiniteSets, TLC

\* Bounds of the model.
NumTracks == 2
MaxPhrases == 2
MaxRenders == 2
MaxGraphTasks == 3
MaxNotes == 3
MaxPosition == 3
MaxDuration == 2
MaxMinRestTicks == 3
MaxLastRestFrames == 1
MaxTicksPerFrame == 2
Tpqn == 2
MaxSequences == 2
MaxClock == 3
MaxSetTime == 1
MaxLoopTime == 2
MaxToBeStopped == 2
LookAhead == 2

NoTask == [kind |-> "none", track |-> 0, phrase |-> 0]
NoGraph == [error |-> "not constructed"]
NoEvent == [type |-> "none", task |-> NoTask, isCachedTask |-> FALSE, result |-> "none"]

VARIABLES
    \* the snapshot handed to render
    phraseCount,        \* phraseCount[tr]: number of phrases extracted from track tr
    singer,             \* singer[tr]: whether track tr has a singer
    selectorKind,       \* "stub": the selector the facade installs; "policy": an injected selector
    \* SongTrackRenderer
    isRendering,
    rendererInterruptionRequested,
    caches,             \* the four caches, as one set of keys (the kind is part of a key)
    slots,              \* the phrase slots written during the render (by the task that wrote them)
    renderResult,       \* what the last render call returned
    renders,            \* number of render calls accepted so far
    \* TaskGraphRunner
    runStatus,
    cacheStatus,
    runnableTasksPendingCacheCheck,
    runnableCachedTasks,
    isStarted,
    isRunning,
    runnerInterruptionRequested,
    interrupted,
    current,            \* the task being probed or run
    isCachedTask,
    result,             \* the TaskResultInfo of the task that has returned
    pc,
    \* observations (history of the current run)
    startedTasks,       \* tasks that entered Running
    finishedTasks,      \* tasks whose taskFinished event was dispatched
    cacheWriters,       \* tasks that executed cache.set
    firstEvent,
    lastEvent,
    eventCount,
    terminalCount,
    taskStatusesAtTaskFinished, \* runner.taskStatuses as a listener of the last taskFinished reads it
    listenerErrorLogged, \* dispatchEvent of the runner has caught an error of a listener in this run
    selectorGaveUp,     \* the selector returned none while some task was Runnable
    runRejected,        \* run() rejected (an error was thrown in the loop)
    requestedDuringRender, \* requestRenderingInterruption was called during this render
    renderingCompletedCount,
    \* the listener that createAndSetupTaskGraphRunner registers on the runner
    cacheLoadPhase,
    cacheLoadedPhraseKeys,
    trackIdDuringQueryGeneration,
    remainingQueryGenerationTaskCount,
    queryGenerationResults,
    \* observations of the events the facade dispatches in the current render
    recordEvents,       \* whether the registered listener keeps the sequence of the events
    facadeEvents,       \* that sequence
    cacheLoadFinishedEvents, \* per cacheLoadFinished: the keys it carried, the keys loaded
    cachedStartsInPhase,     \* phrase keys of the tasks started as cached since the last close
    trackQueryFinishedEvents, \* per trackQueryGenerationFinished: its track and its results
    pitchBeforeTrackQueryFinished, \* tracks with a pitch event before any such event of theirs
    generatedTasks,     \* cacheable tasks whose run called the engine
    \* new TaskGraph(tasks), for task lists other than those of buildTaskGraph
    ctorTasks,          \* the task list given to the constructor (tasks are numbered)
    ctorDependencies,   \* ctorDependencies[t]: the dependencies of task t
    taskGraph,          \* what the constructor produced: a graph or the error thrown
    thrown,             \* the usage error raised by the last call of the facade's API
    \* the score of one track and what generateAndSetPhrases makes of it
    trackNotes,         \* track.notes: a sequence of [id, position, duration]
    overlappingNoteIds, \* snapshot.trackOverlappingNoteIds of the track
    firstRestMinTicks,  \* config.firstRestMinDurationSeconds in ticks at the tempo of the score
    scoreStep,          \* "snapshot", then "phrases", then "request"
    phraseNotesList,    \* the result of extractPhraseNotes
    phraseFirstRestDurations, \* firstRestDuration of each phrase
    requestArgs,        \* the arguments of the last createNotesForRequestToEngine
    notesForRequestToEngine,  \* the frame lengths it returned
    \* the Transport of the audio renderer and the clock of its AudioContext
    transport,          \* the fields of the Transport and of the schedulers it holds
    currentTime         \* audioContext.currentTime

snapshotVars == <<phraseCount, singer, selectorKind>>
graphVars == <<ctorTasks, ctorDependencies, taskGraph>>
transportVars == <<transport, currentTime>>
scoreVars == <<trackNotes, overlappingNoteIds, firstRestMinTicks, scoreStep, phraseNotesList,
               phraseFirstRestDurations, requestArgs, notesForRequestToEngine>>

\* the tracks of the snapshot: snapshot.tracks.keys()
Tracks == DOMAIN phraseCount
rendererVars == <<isRendering, rendererInterruptionRequested, caches, slots, renderResult, renders>>
runnerVars == <<runStatus, cacheStatus, runnableTasksPendingCacheCheck, runnableCachedTasks,
                isStarted, isRunning, runnerInterruptionRequested, interrupted, current,
                isCachedTask, result, pc>>
eventVars == <<firstEvent, lastEvent, eventCount, terminalCount, taskStatusesAtTaskFinished,
               listenerErrorLogged>>
historyVars == <<startedTasks, finishedTasks, cacheWriters, selectorGaveUp, runRejected,
                 requestedDuringRender, renderingCompletedCount>>
adapterVars == <<cacheLoadPhase, cacheLoadedPhraseKeys, trackIdDuringQueryGeneration,
                 remainingQueryGenerationTaskCount, queryGenerationResults>>
adapterObsVars == <<cacheLoadFinishedEvents, cachedStartsInPhase, trackQueryFinishedEvents,
                    pitchBeforeTrackQueryFinished>>
listenerVars == <<adapterVars, adapterObsVars, facadeEvents>>
vars == <<transportVars, scoreVars, graphVars, snapshotVars, rendererVars, runnerVars, eventVars, historyVars, listenerVars,
          recordEvents, generatedTasks, thrown>>

Range(s) == {s[i] : i \in 1..Len(s)}
Last(s) == s[Len(s)]
Front(s) == SubSeq(s, 1, Len(s) - 1)

Task(k, tr, i) == [kind |-> k, track |-> tr, phrase |-> i]

----------------------------------------------------------------------------
(* SongTrackRenderer.buildTaskGraph *)

\* a variant that creates the query tasks without looking at the singer
QueryTasksOfAnyTrack(tr) == [i \in 1..phraseCount[tr] |-> Task("query", tr, i)]

\* one FrameAudioQueryGenerationTask per phrase of a track that has a singer
QueryTasksOf(tr) ==
    IF singer[tr] THEN [i \in 1..phraseCount[tr] |-> Task("query", tr, i)] ELSE <<>>

AdjustTaskOf(tr) == Task("adjust", tr, 0)

\* pitch, volume and voice task of each phrase that has a query task
StageTasksOf(tr) ==
    [j \in 1..(3 * Len(QueryTasksOf(tr))) |->
        LET i == ((j - 1) \div 3) + 1
            k == (j - 1) % 3
        IN  Task(IF k = 0 THEN "pitch" ELSE IF k = 1 THEN "volume" ELSE "voice", tr, i)]

TrackTasks(tr) == QueryTasksOf(tr) \o <<AdjustTaskOf(tr)>> \o StageTasksOf(tr)

RECURSIVE TasksUpTo(_)
TasksUpTo(n) == IF n = 0 THEN <<>> ELSE TasksUpTo(n - 1) \o TrackTasks(n)

TaskList == TasksUpTo(Len(phraseCount))
TaskSet == Range(TaskList)

Dependencies(t) ==
    CASE t.kind = "query"  -> <<>>
      [] t.kind = "adjust" -> QueryTasksOf(t.track)
      [] t.kind = "pitch"  -> <<Task("query", t.track, t.phrase), AdjustTaskOf(t.track)>>
      [] t.kind = "volume" -> <<Task("pitch", t.track, t.phrase)>>
      [] t.kind = "voice"  -> <<Task("volume", t.track, t.phrase)>>

\* a variant in which every task has the skip condition of the adjust task
SkipConditionOfAdjust(t) == "AllDependenciesFailedOrSkipped"

SkipCondition(t) ==
    IF t.kind = "adjust" THEN "AllDependenciesFailedOrSkipped"
    ELSE "AnyDependencyFailedOrSkipped"

\* a variant in which every task class declares isCacheable: true
IsCacheableAlways(t) == TRUE

IsCacheable(t) == t.kind # "adjust"

(* TaskGraph constructor, for the task list of buildTaskGraph *)
ParentsMap(t) == Dependencies(t)
ChildrenMap(t) == SelectSeq(TaskList, LAMBDA c : t \in Range(Dependencies(c)))

----------------------------------------------------------------------------
(* Cache keys.  A key is the hash of the task's source (calculateQueryKey,  *)
(* calculateSingingPitchKey, ...): the snapshot data of the phrase and the  *)
(* artifacts of the earlier stages of the same phrase.  The snapshot is the *)
(* same in every render of a behaviour and an engine call that succeeds     *)
(* returns the same artifact for the same source, so the key of a task is   *)
(* determined by its kind and its phrase.                                   *)

CacheKey(t) == [kind |-> t.kind, track |-> t.track, phrase |-> t.phrase]

\* a variant of isCached that never finds an entry
IsCachedNever(t) == FALSE

\* task.isCached(context)
IsCached(t) == CacheKey(t) \in caches

----------------------------------------------------------------------------
(* TaskGraphRunner: status propagation *)

IsSettled(s) == s \in {"Success", "Failed", "Skipped"}
\* a variant of isFailedOrSkipped that does not count skipped tasks
IsFailedOnly(s) == s = "Failed"

\* isFailedOrSkipped in updateDescendantStatusesOnFailure
IsFailedOrSkipped(s) == s \in {"Failed", "Skipped"}

AllDependenciesSettled(child, rs) ==
    \A d \in Range(ParentsMap(child)) : IsSettled(rs[d])

\* a variant that applies AnyDependencyFailedOrSkipped to every task
SkipTriggeredIgnoringCondition(child, rs) ==
    \E d \in Range(ParentsMap(child)) : IsFailedOrSkipped(rs[d])

\* the switch on child.skipCondition in updateDescendantStatusesOnFailure
SkipTriggered(child, rs) ==
    IF SkipCondition(child) = "AnyDependencyFailedOrSkipped"
    THEN \E d \in Range(ParentsMap(child)) : IsFailedOrSkipped(rs[d])
    ELSE \A d \in Range(ParentsMap(child)) : IsFailedOrSkipped(rs[d])

\* a variant that makes a child Runnable on the first dependency that succeeds
BecomesRunnableOnFirstSuccess(child, rs) == rs[child] = "AwaitingDependencies"

\* the test under which updateDescendantStatusesOnSuccess makes a child Runnable
BecomesRunnableOnSuccess(child, rs) ==
    /\ rs[child] = "AwaitingDependencies"
    /\ AllDependenciesSettled(child, rs)

RECURSIVE SuccessLoop(_, _, _)
SuccessLoop(children, rs, pend) ==
    IF children = <<>> THEN [rs |-> rs, pend |-> pend]
    ELSE LET child == Head(children) IN
         IF BecomesRunnableOnSuccess(child, rs)
         THEN SuccessLoop(Tail(children), [rs EXCEPT ![child] = "Runnable"], Append(pend, child))
         ELSE SuccessLoop(Tail(children), rs, pend)

updateDescendantStatusesOnSuccess(successTask, rs, pend) ==
    SuccessLoop(ChildrenMap(successTask), rs, pend)

\* a variant of the runner that does not look at the descendants of a failed task
NoUpdateOnFailure(failedTask, rs, pend) == [rs |-> rs, pend |-> pend]

\* the for loop over the children of one task popped from the DFS stack
RECURSIVE FailureChildren(_, _, _, _)
FailureChildren(children, stack, rs, pend) ==
    IF children = <<>> THEN [stack |-> stack, rs |-> rs, pend |-> pend]
    ELSE LET child == Head(children) IN
         IF rs[child] # "AwaitingDependencies"
         THEN FailureChildren(Tail(children), stack, rs, pend)
         ELSE IF SkipTriggered(child, rs)
         THEN FailureChildren(Tail(children), Append(stack, child),
                              [rs EXCEPT ![child] = "Skipped"], pend)
         ELSE IF AllDependenciesSettled(child, rs)
         THEN FailureChildren(Tail(children), stack,
                              [rs EXCEPT ![child] = "Runnable"], Append(pend, child))
         ELSE FailureChildren(Tail(children), stack, rs, pend)

\* the while loop over the DFS stack
RECURSIVE FailureLoop(_, _, _)
FailureLoop(stack, rs, pend) ==
    IF stack = <<>> THEN [rs |-> rs, pend |-> pend]
    ELSE LET r == FailureChildren(ChildrenMap(Last(stack)), Front(stack), rs, pend)
         IN  FailureLoop(r.stack, r.rs, r.pend)

updateDescendantStatusesOnFailure(failedTask, rs, pend) ==
    FailureLoop(<<failedTask>>, rs, pend)

\* a variant of the sweep that leaves Runnable tasks alone
SweepAwaitingOnly(s) == IF s = "AwaitingDependencies" THEN "Skipped" ELSE s

\* a variant of the sweep that marks every task that did not succeed
SweepUnsuccessful(s) == IF s # "Success" THEN "Skipped" ELSE s

\* the sweep of the finally block of run()
SweepStatus(s) == IF s \in {"AwaitingDependencies", "Runnable"} THEN "Skipped" ELSE s

\* a variant that chooses the terminal event by the flag instead of the exit taken
TerminalEventTypeByFlag(intr, requested) == IF requested THEN "interrupted" ELSE "completed"

\* the terminal event chosen in the finally block
TerminalEventType(intr, requested) == IF intr THEN "interrupted" ELSE "completed"

----------------------------------------------------------------------------
(* The listener of createAndSetupTaskGraphRunner: it turns the events of    *)
(* the runner into the events of the facade.  It runs inside the runner's   *)
(* dispatchEvent, which catches what it throws.                             *)

NoTrack == 0

PhraseKey(t) == [track |-> t.track, phrase |-> t.phrase]

FacadeEvent(ty, tr, ph, keys) == [type |-> ty, track |-> tr, phrase |-> ph, keys |-> keys]

\* if (cacheLoadPhase): a task that is not cached starts, or the run completes
ClosesCacheLoadPhase(phase, e) ==
    phase /\ ((e.type = "taskStarted" /\ ~e.isCachedTask) \/ e.type = "completed")

\* else: a cached task starts
OpensCacheLoadPhase(phase, e) ==
    ~phase /\ e.type = "taskStarted" /\ e.isCachedTask

\* onQueryGenerationTaskStarted: the query tasks of the track that are not settled
RemainingQueryTasks(tr, rs) ==
    Cardinality({q \in DOMAIN rs :
        /\ q.kind = "query" /\ q.track = tr
        /\ rs[q] \in {"AwaitingDependencies", "Runnable", "Running"}})

\* onQueryGenerationTaskStarted goes past its early return
QueryGenerationStarts(e) ==
    /\ e.type = "taskStarted" /\ ~e.isCachedTask /\ e.task.kind = "query"
    /\ trackIdDuringQueryGeneration = NoTrack

\* onQueryGenerationTaskFinished goes past its first throw
QueryGenerationCounts(e) ==
    /\ e.type = "taskFinished" /\ e.task.kind = "query"
    /\ trackIdDuringQueryGeneration # NoTrack

\* onQueryGenerationTaskFinished throws: no track is being tracked
AdapterThrows(e) ==
    /\ e.type = "taskFinished" /\ e.task.kind = "query"
    /\ trackIdDuringQueryGeneration = NoTrack

\* the events of the facade dispatched by the switch on event.type
StageEvents(e) ==
    LET k == e.task.kind
        key == PhraseKey(e.task)
    IN  IF QueryGenerationStarts(e)
        THEN <<FacadeEvent("trackQueryGenerationStarted", e.task.track, 0, {})>>
        ELSE IF QueryGenerationCounts(e)
        THEN IF remainingQueryGenerationTaskCount - 1 = 0
             THEN <<FacadeEvent("trackQueryGenerationFinished", trackIdDuringQueryGeneration,
                                0, queryGenerationResults \cup {key})>>
             ELSE <<>>
        ELSE IF e.type = "taskStarted" /\ ~e.isCachedTask /\ k \in {"pitch", "volume", "voice"}
        THEN <<FacadeEvent(IF k = "pitch" THEN "pitchGenerationStarted"
                           ELSE IF k = "volume" THEN "volumeGenerationStarted"
                           ELSE "voiceSynthesisStarted", key.track, key.phrase, {})>>
        ELSE IF e.type = "taskFinished" /\ k \in {"pitch", "volume", "voice"}
        THEN <<FacadeEvent(IF k = "pitch" THEN "pitchGenerationFinished"
                           ELSE IF k = "volume" THEN "volumeGenerationFinished"
                           ELSE "voiceSynthesisFinished", key.track, key.phrase, {})>>
        ELSE <<>>

IsGenerationStarted(fe) ==
    fe.type \in {"trackQueryGenerationStarted", "pitchGenerationStarted",
                 "volumeGenerationStarted", "voiceSynthesisStarted"}

Record(evs) == IF recordEvents THEN facadeEvents \o evs ELSE facadeEvents

\* taskGraphRunner.addEventListener((event) => ...), for the event e of the runner
AdapterListener(e) ==
    LET closes == ClosesCacheLoadPhase(cacheLoadPhase, e)
        opens == OpensCacheLoadPhase(cacheLoadPhase, e)
        key == PhraseKey(e.task)
        cacheEvents == IF closes
                       THEN <<FacadeEvent("cacheLoadFinished", NoTrack, 0, cacheLoadedPhraseKeys)>>
                       ELSE <<>>
        stageEvents == StageEvents(e)
        trackFinished == stageEvents # <<>>
                         /\ stageEvents[1].type = "trackQueryGenerationFinished"
        pitchEvent == stageEvents # <<>>
                      /\ stageEvents[1].type \in {"pitchGenerationStarted",
                                                  "pitchGenerationFinished"}
    IN  /\ cacheLoadPhase' = IF closes THEN FALSE ELSE IF opens THEN TRUE ELSE cacheLoadPhase
        /\ cacheLoadedPhraseKeys' =
              IF closes THEN {}
              ELSE IF opens THEN cacheLoadedPhraseKeys \cup {key}
              ELSE cacheLoadedPhraseKeys
        /\ trackIdDuringQueryGeneration' =
              IF QueryGenerationStarts(e) THEN e.task.track
              ELSE IF trackFinished THEN NoTrack
              ELSE trackIdDuringQueryGeneration
        /\ remainingQueryGenerationTaskCount' =
              IF QueryGenerationStarts(e) THEN RemainingQueryTasks(e.task.track, runStatus')
              ELSE IF QueryGenerationCounts(e) THEN remainingQueryGenerationTaskCount - 1
              ELSE remainingQueryGenerationTaskCount
        /\ queryGenerationResults' =
              IF trackFinished THEN {}
              ELSE IF QueryGenerationCounts(e) THEN queryGenerationResults \cup {key}
              ELSE queryGenerationResults
        /\ facadeEvents' = Record(cacheEvents \o stageEvents)
        /\ cacheLoadFinishedEvents' =
              IF closes
              THEN cacheLoadFinishedEvents
                   \cup {[keys |-> cacheLoadedPhraseKeys, loaded |-> cachedStartsInPhase]}
              ELSE cacheLoadFinishedEvents
        /\ cachedStartsInPhase' =
              IF closes THEN {}
              ELSE IF e.type = "taskStarted" /\ e.isCachedTask
              THEN cachedStartsInPhase \cup {key}
              ELSE cachedStartsInPhase
        /\ trackQueryFinishedEvents' =
              IF trackFinished
              THEN trackQueryFinishedEvents
                   \cup {[track |-> stageEvents[1].track, results |-> stageEvents[1].keys]}
              ELSE trackQueryFinishedEvents
        /\ pitchBeforeTrackQueryFinished' =
              IF pitchEvent /\ ~\E r \in trackQueryFinishedEvents : r.track = e.task.track
              THEN pitchBeforeTrackQueryFinished \cup {e.task.track}
              ELSE pitchBeforeTrackQueryFinished

----------------------------------------------------------------------------
(* Events of the runner (TaskGraphRunnerEvent), observed through            *)
(* dispatchEvent: the first and the last event of the run and their number. *)

Event(ty, t, cached, res) == [type |-> ty, task |-> t, isCachedTask |-> cached, result |-> res]

IsTerminal(e) == e.type \in {"completed", "interrupted"}

\* dispatchEvent: every listener is called with the event
DispatchEvent(e) ==
    /\ lastEvent' = e
    /\ firstEvent' = IF eventCount = 0 THEN e ELSE firstEvent
    /\ eventCount' = eventCount + 1
    /\ terminalCount' = terminalCount + (IF IsTerminal(e) THEN 1 ELSE 0)
    /\ AdapterListener(e)
    /\ listenerErrorLogged' = (listenerErrorLogged \/ AdapterThrows(e))

\* dispatchEvent of an event other than taskFinished
Emit(e) ==
    /\ DispatchEvent(e)
    /\ UNCHANGED taskStatusesAtTaskFinished

NoEmit == UNCHANGED <<eventVars, listenerVars>>

----------------------------------------------------------------------------
(* TaskGraphRunner.run: the synchronous segments of the loop *)

\* a runner built without the priority of cached tasks
PrioritizeCachedTaskOff == FALSE

\* the second argument of new TaskGraphRunner(context, taskGraph, selector, true)
PrioritizeCachedTask == TRUE

\* a variant that goes on with the loop without awaiting the task
NoAwaitTaskRun == "loopTop"

\* where the loop waits after taskStarted: await task.run(this.context)
AwaitTaskRun == "running"

\* the value of isCachedTask captured before the task is started
IsCachedTaskOf(t, cs) == cs[t] = "Cached"

\* the isCachedTask field of the taskFinished event
FinishedIsCachedTask(captured, cs, t) == captured

\* a variant of the finally block without the sweep of the unsettled tasks
FinallyWithoutSweep(rs, cs, intr, rejected) ==
    /\ runStatus' = rs
    /\ cacheStatus' = cs
    /\ runnableTasksPendingCacheCheck' = runnableTasksPendingCacheCheck
    /\ runnableCachedTasks' = runnableCachedTasks
    /\ isRunning' = FALSE
    /\ runnerInterruptionRequested' = FALSE
    /\ interrupted' = intr
    /\ runRejected' = rejected
    /\ current' = NoTask
    /\ isCachedTask' = FALSE
    /\ result' = "none"
    /\ pc' = "afterRun"
    /\ Emit(Event(TerminalEventType(intr, runnerInterruptionRequested), NoTask, FALSE, "none"))
    /\ UNCHANGED <<isStarted, startedTasks>>

\* the finally block: sweep, flags, terminal event; the run is over
Finally(rs, cs, intr, rejected) ==
    /\ runStatus' = [t \in DOMAIN rs |-> SweepStatus(rs[t])]
    /\ cacheStatus' = cs
    /\ runnableTasksPendingCacheCheck' = runnableTasksPendingCacheCheck
    /\ runnableCachedTasks' = runnableCachedTasks
    /\ isRunning' = FALSE
    /\ runnerInterruptionRequested' = FALSE
    /\ interrupted' = intr
    /\ runRejected' = rejected
    /\ current' = NoTask
    /\ isCachedTask' = FALSE
    /\ result' = "none"
    /\ pc' = "afterRun"
    /\ Emit(Event(TerminalEventType(intr, runnerInterruptionRequested), NoTask, FALSE, "none"))
    /\ UNCHANGED <<isStarted, startedTasks>>

\* lines 238-252: the checks on the picked task, Running, taskStarted, await run
StartTask(t, cs, pend, stack) ==
    IF t \notin DOMAIN runStatus \/ runStatus[t] # "Runnable"
    THEN Finally(runStatus, cs, FALSE, TRUE)
    ELSE /\ runStatus' = [runStatus EXCEPT ![t] = "Running"]
         /\ cacheStatus' = cs
         /\ runnableTasksPendingCacheCheck' = pend
         /\ runnableCachedTasks' = stack
         /\ current' = t
         /\ isCachedTask' = IsCachedTaskOf(t, cs)
         /\ result' = "none"
         /\ pc' = AwaitTaskRun
         /\ startedTasks' = startedTasks \cup {t}
         /\ Emit(Event("taskStarted", t, IsCachedTaskOf(t, cs), "none"))
         /\ UNCHANGED <<isStarted, isRunning, runnerInterruptionRequested, interrupted,
                        runRejected>>

\* the tasks popped from the pending list without suspension: the non-cacheable ones
RECURSIVE DropNonCacheable(_)
DropNonCacheable(pend) ==
    IF pend # <<>> /\ ~IsCacheable(Last(pend)) THEN DropNonCacheable(Front(pend)) ELSE pend

\* lines 205-233: drain the pending list up to the next isCached call, then pick
ContinueIteration(pend, cs, stack) ==
    LET p == DropNonCacheable(pend) IN
    IF p # <<>>
    THEN /\ pc' = "probe"
         /\ current' = Last(p)
         /\ runnableTasksPendingCacheCheck' = Front(p)
         /\ cacheStatus' = cs
         /\ runnableCachedTasks' = stack
         /\ NoEmit
         /\ UNCHANGED <<runStatus, isStarted, isRunning, runnerInterruptionRequested,
                        interrupted, isCachedTask, result, startedTasks, runRejected>>
    ELSE IF PrioritizeCachedTask /\ stack # <<>>
    THEN StartTask(Last(stack), cs, p, Front(stack))
    ELSE /\ pc' = "select"
         /\ current' = NoTask
         /\ runnableTasksPendingCacheCheck' = p
         /\ cacheStatus' = cs
         /\ runnableCachedTasks' = stack
         /\ NoEmit
         /\ UNCHANGED <<runStatus, isStarted, isRunning, runnerInterruptionRequested,
                        interrupted, isCachedTask, result, startedTasks, runRejected>>

\* a variant of the loop that never looks at the flag
InterruptionIgnored(requested) == FALSE

\* the check at the top of the loop: if (this.interruptionRequested)
InterruptionObserved(requested) == requested

\* top of the loop: the interruption check, then the iteration up to its first await
LoopTop ==
    /\ pc = "loopTop"
    /\ IF InterruptionObserved(runnerInterruptionRequested)
       THEN Finally(runStatus, cacheStatus, TRUE, FALSE)
       ELSE ContinueIteration(runnableTasksPendingCacheCheck, cacheStatus, runnableCachedTasks)
    /\ UNCHANGED <<transportVars, scoreVars, graphVars, snapshotVars, rendererVars, finishedTasks, cacheWriters, selectorGaveUp,
                   requestedDuringRender, renderingCompletedCount, recordEvents,
                   generatedTasks, thrown>>

\* await task.isCached(this.context) has resolved
ProbeReturn ==
    /\ pc = "probe"
    /\ LET cached == IsCached(current)
           cs == [cacheStatus EXCEPT ![current] = IF cached THEN "Cached" ELSE "NotCached"]
           stack == IF cached THEN Append(runnableCachedTasks, current)
                    ELSE runnableCachedTasks
       IN  ContinueIteration(runnableTasksPendingCacheCheck, cs, stack)
    /\ UNCHANGED <<transportVars, scoreVars, graphVars, snapshotVars, rendererVars, finishedTasks, cacheWriters, selectorGaveUp,
                   requestedDuringRender, renderingCompletedCount, recordEvents,
                   generatedTasks, thrown>>

RunnableTasks == {t \in DOMAIN runStatus : runStatus[t] = "Runnable"}

\* a variant in which the installed selector returns Runnable tasks as well
SelectorChoicesOfPolicy ==
    {[valid |-> TRUE, task |-> NoTask]} \cup {[valid |-> TRUE, task |-> t] : t \in RunnableTasks}

\* what a selector may return: none, a task of the graph, or (encoded as NoTask with
\* valid = FALSE) something that is not a Runnable task of the graph
SelectorChoices ==
    IF selectorKind = "stub" THEN {[valid |-> TRUE, task |-> NoTask]}
    ELSE {[valid |-> TRUE, task |-> NoTask], [valid |-> FALSE, task |-> NoTask]}
         \cup {[valid |-> TRUE, task |-> t] : t \in RunnableTasks}

\* await this.selectNextTaskToRun(...) has resolved
SelectReturn ==
    /\ pc = "select"
    /\ \E c \in SelectorChoices :
        /\ selectorGaveUp' = (selectorGaveUp \/ ~c.valid
                               \/ (c.task = NoTask /\ RunnableTasks # {}))
        /\ IF ~c.valid
           THEN Finally(runStatus, cacheStatus, FALSE, TRUE)
           ELSE IF c.task = NoTask
           THEN Finally(runStatus, cacheStatus, FALSE, FALSE)
           ELSE StartTask(c.task, cacheStatus, runnableTasksPendingCacheCheck,
                          runnableCachedTasks)
    /\ UNCHANGED <<transportVars, scoreVars, graphVars, snapshotVars, rendererVars, finishedTasks, cacheWriters,
                   requestedDuringRender, renderingCompletedCount, recordEvents,
                   generatedTasks, thrown>>

----------------------------------------------------------------------------
(* The stage tasks: run(context) of the five task classes *)

\* a variant of run() that generates without looking into the cache
NeedsGenerationAlways(t) == TRUE

\* whether run() reaches the engine: a cacheable task whose key is in its cache loads it
NeedsGeneration(t) == ~(IsCacheable(t) /\ IsCached(t))

\* a variant that stores into the cache before the generation has succeeded
CacheAfterRunStoringEarly(t, generated, ok) ==
    IF generated /\ IsCacheable(t) THEN caches \cup {CacheKey(t)} ELSE caches

\* whether run() calls the engine: the generation of a cacheable task
CallsEngine(t) == IsCacheable(t) /\ NeedsGeneration(t)

\* the cache after run(): this.cache.set(key, artifact) follows a successful generation
CacheAfterRun(t, generated, ok) ==
    IF generated /\ ok /\ IsCacheable(t) THEN caches \cup {CacheKey(t)} ELSE caches

\* a variant that writes the key slot of the phrase before the generation
SlotsAfterRunWritingFirst(t, ok) == slots \cup {t}

\* the phrase slots after run(): written last, when nothing has thrown
SlotsAfterRun(t, ok) == IF ok THEN slots \cup {t} ELSE slots

\* a variant of the try block without its catch clause's result
CaughtResultLosingError(ok) == "Success"

\* try { await task.run(...); result = Success } catch (error) { result = Failed }
CaughtResult(ok) == IF ok THEN "Success" ELSE "Failed"

\* await task.run(this.context) settles: an engine call (or the adjustment) may throw
TaskRun ==
    /\ pc = "running"
    /\ \E ok \in (IF NeedsGeneration(current) THEN BOOLEAN ELSE {TRUE}) :
        /\ caches' = CacheAfterRun(current, NeedsGeneration(current), ok)
        /\ slots' = SlotsAfterRun(current, ok)
        /\ cacheWriters' = IF caches' # caches THEN cacheWriters \cup {current}
                           ELSE cacheWriters
        /\ result' = CaughtResult(ok)
    /\ generatedTasks' = IF CallsEngine(current) THEN generatedTasks \cup {current}
                          ELSE generatedTasks
    /\ pc' = "settle"
    /\ NoEmit
    /\ UNCHANGED <<transportVars, scoreVars, graphVars, snapshotVars, isRendering, rendererInterruptionRequested, renderResult,
                   renders, runStatus, cacheStatus, runnableTasksPendingCacheCheck,
                   runnableCachedTasks, isStarted, isRunning, runnerInterruptionRequested,
                   interrupted, current, isCachedTask, startedTasks, finishedTasks,
                   selectorGaveUp, runRejected, requestedDuringRender,
                   renderingCompletedCount, recordEvents, thrown>>

\* a variant in which an error thrown by a listener of taskFinished leaves the loop
AfterTaskFinishedAborting(threw) == IF threw THEN "afterRun" ELSE "loopTop"

\* after dispatchEvent(taskFinished) the loop goes on, whatever the listeners did
AfterTaskFinished(threw) == "loopTop"

\* lines 259-276: the result's status, propagation to the descendants, taskFinished
Settle ==
    /\ pc = "settle"
    /\ LET rs == [runStatus EXCEPT ![current] = result]
           r == IF result = "Success"
                THEN updateDescendantStatusesOnSuccess(current, rs,
                                                       runnableTasksPendingCacheCheck)
                ELSE updateDescendantStatusesOnFailure(current, rs,
                                                       runnableTasksPendingCacheCheck)
       IN  /\ runStatus' = r.rs
           /\ runnableTasksPendingCacheCheck' = r.pend
    /\ DispatchEvent(Event("taskFinished", current,
                           FinishedIsCachedTask(isCachedTask, cacheStatus, current), result))
    /\ taskStatusesAtTaskFinished' = runStatus'
    /\ finishedTasks' = finishedTasks \cup {current}
    /\ current' = NoTask
    /\ isCachedTask' = FALSE
    /\ result' = "none"
    /\ pc' = AfterTaskFinished(AdapterThrows(Event("taskFinished", current, isCachedTask, result)))
    /\ UNCHANGED <<transportVars, scoreVars, graphVars, snapshotVars, rendererVars, cacheStatus, runnableCachedTasks, isStarted,
                   isRunning, runnerInterruptionRequested, interrupted, startedTasks,
                   cacheWriters, selectorGaveUp, runRejected, requestedDuringRender,
                   renderingCompletedCount, recordEvents, generatedTasks, thrown>>

\* a variant of requestInterruption without its check
InterruptionAcceptedAlways(running) == TRUE

\* requestInterruption: if (!this.isRunning) throw
InterruptionAccepted(running) == running

\* TaskGraphRunner.requestInterruption(), by whoever holds the runner
RequestInterruption ==
    /\ InterruptionAccepted(isRunning)
    /\ ~runnerInterruptionRequested
    /\ runnerInterruptionRequested' = TRUE
    /\ UNCHANGED <<transportVars, scoreVars, graphVars, snapshotVars, rendererVars, runStatus, cacheStatus,
                   runnableTasksPendingCacheCheck, runnableCachedTasks, isStarted, isRunning,
                   interrupted, current, isCachedTask, result, pc, eventVars, historyVars,
                   listenerVars, recordEvents, generatedTasks, thrown>>

----------------------------------------------------------------------------
(* SongTrackRenderer *)

\* the status and cache status the TaskGraphRunner constructor gives a task
InitialRunStatus(t) ==
    IF Len(Dependencies(t)) = 0 THEN "Runnable" ELSE "AwaitingDependencies"

\* the zero-dependency tasks, in the order of the task list
InitialPending == SelectSeq(TaskList, LAMBDA t : Len(Dependencies(t)) = 0)

\* a variant of the check that lets every call through
RenderAcceptedAlways(rendering) == TRUE

\* if (this._isRendering) throw new Error("Rendering is already in progress.")
RenderAccepted(rendering) == ~rendering

\* if (!this._isRendering) throw new Error("Rendering is not in progress.")
RequestAccepted(rendering) == rendering

\* what a render call that was accepted resets: the runner and the listener of the
\* previous render are gone, and so are the observations made of it
NewRender ==
    /\ cacheLoadPhase' = FALSE
    /\ cacheLoadedPhraseKeys' = {}
    /\ trackIdDuringQueryGeneration' = NoTrack
    /\ remainingQueryGenerationTaskCount' = 0
    /\ queryGenerationResults' = {}
    /\ cacheLoadFinishedEvents' = {}
    /\ cachedStartsInPhase' = {}
    /\ trackQueryFinishedEvents' = {}
    /\ pitchBeforeTrackQueryFinished' = {}
    /\ generatedTasks' = {}
    /\ thrown' = "none"
    /\ facadeEvents' = IF recordEvents
                        THEN <<FacadeEvent("renderingStarted", NoTrack, 0, {})>>
                        ELSE <<>>

\* render(snapshot), up to await generateAndSetPhrases
Render ==
    /\ RenderAccepted(isRendering)
    /\ renders < MaxRenders
    /\ NewRender
    /\ isRendering' = TRUE
    /\ renders' = renders + 1
    /\ slots' = {}
    /\ renderResult' = "none"
    /\ pc' = "genPhrases"
    \* the runner of the previous render is gone
    /\ runStatus' = <<>>
    /\ cacheStatus' = <<>>
    /\ runnableTasksPendingCacheCheck' = <<>>
    /\ runnableCachedTasks' = <<>>
    /\ isStarted' = FALSE
    /\ isRunning' = FALSE
    /\ runnerInterruptionRequested' = FALSE
    /\ interrupted' = FALSE
    /\ current' = NoTask
    /\ isCachedTask' = FALSE
    /\ result' = "none"
    /\ firstEvent' = NoEvent
    /\ lastEvent' = NoEvent
    /\ eventCount' = 0
    /\ terminalCount' = 0
    /\ taskStatusesAtTaskFinished' = <<>>
    /\ listenerErrorLogged' = FALSE
    /\ startedTasks' = {}
    /\ finishedTasks' = {}
    /\ cacheWriters' = {}
    /\ selectorGaveUp' = FALSE
    /\ runRejected' = FALSE
    /\ requestedDuringRender' = FALSE
    /\ renderingCompletedCount' = 0
    /\ UNCHANGED <<transportVars, scoreVars, graphVars, snapshotVars, rendererInterruptionRequested, caches, recordEvents>>

\* generateAndSetPhrases has resolved; createAndSetupTaskGraphRunner; run() up to the loop
StartRun ==
    /\ pc = "genPhrases"
    /\ runStatus' = [t \in TaskSet |-> InitialRunStatus(t)]
    /\ cacheStatus' = [t \in TaskSet |-> "Unchecked"]
    /\ runnableTasksPendingCacheCheck' = InitialPending
    /\ runnableCachedTasks' = <<>>
    /\ isStarted' = TRUE
    /\ isRunning' = TRUE
    /\ Emit(Event("started", NoTask, FALSE, "none"))
    /\ pc' = "loopTop"
    /\ UNCHANGED <<transportVars, scoreVars, graphVars, snapshotVars, rendererVars, runnerInterruptionRequested, interrupted,
                   current, isCachedTask, result, historyVars, recordEvents, generatedTasks,
                   thrown>>

\* a variant that reports how the runner ended
RenderOutcomeOfRunner(requested, intr) == IF intr THEN "interrupted" ELSE "complete"

\* the result of render once run() has resolved
RenderOutcome(requested, intr) == IF requested THEN "interrupted" ELSE "complete"

\* await taskGraphRunner.run() has settled: the result, and the finally block of render
AfterRun ==
    /\ pc = "afterRun"
    /\ renderResult' = IF runRejected THEN "error"
                       ELSE RenderOutcome(rendererInterruptionRequested, interrupted)
    /\ renderingCompletedCount' =
          IF renderResult' = "complete" THEN renderingCompletedCount + 1
          ELSE renderingCompletedCount
    /\ facadeEvents' = IF renderResult' = "complete"
                        THEN Record(<<FacadeEvent("renderingCompleted", NoTrack, 0, {})>>)
                        ELSE facadeEvents
    /\ rendererInterruptionRequested' = FALSE
    /\ isRendering' = FALSE
    /\ pc' = "idle"
    /\ UNCHANGED <<transportVars, scoreVars, graphVars, snapshotVars, caches, slots, renders, runStatus, cacheStatus,
                   runnableTasksPendingCacheCheck, runnableCachedTasks, isStarted, isRunning,
                   runnerInterruptionRequested, interrupted, current, isCachedTask, result,
                   eventVars, startedTasks, finishedTasks, cacheWriters, selectorGaveUp,
                   runRejected, requestedDuringRender, adapterVars, adapterObsVars,
                   recordEvents, generatedTasks, thrown>>

\* requestRenderingInterruption()
RequestRenderingInterruption ==
    /\ RequestAccepted(isRendering)
    /\ ~rendererInterruptionRequested
    /\ rendererInterruptionRequested' = TRUE
    /\ requestedDuringRender' = TRUE
    /\ thrown' = "none"
    /\ UNCHANGED <<transportVars, scoreVars, graphVars, snapshotVars, isRendering, caches, slots, renderResult, renders,
                   runnerVars, eventVars, startedTasks, finishedTasks, cacheWriters,
                   selectorGaveUp, runRejected, renderingCompletedCount, listenerVars,
                   recordEvents, generatedTasks>>

----------------------------------------------------------------------------
RECURSIVE SumUpTo(_, _)
SumUpTo(f, n) == IF n = 0 THEN 0 ELSE SumUpTo(f, n - 1) + f[n]

\* the renderer after construction, no render call made yet
InitRenderer ==
    /\ isRendering = FALSE
    /\ rendererInterruptionRequested = FALSE
    /\ caches = {}
    /\ slots = {}
    /\ renderResult = "none"
    /\ renders = 0
    /\ runStatus = <<>>
    /\ cacheStatus = <<>>
    /\ runnableTasksPendingCacheCheck = <<>>
    /\ runnableCachedTasks = <<>>
    /\ isStarted = FALSE
    /\ isRunning = FALSE
    /\ runnerInterruptionRequested = FALSE
    /\ interrupted = FALSE
    /\ current = NoTask
    /\ isCachedTask = FALSE
    /\ result = "none"
    /\ pc = "idle"
    /\ startedTasks = {}
    /\ finishedTasks = {}
    /\ cacheWriters = {}
    /\ firstEvent = NoEvent
    /\ lastEvent = NoEvent
    /\ eventCount = 0
    /\ terminalCount = 0
    /\ taskStatusesAtTaskFinished = <<>>
    /\ listenerErrorLogged = FALSE
    /\ selectorGaveUp = FALSE
    /\ runRejected = FALSE
    /\ requestedDuringRender = FALSE
    /\ renderingCompletedCount = 0
    /\ cacheLoadPhase = FALSE
    /\ cacheLoadedPhraseKeys = {}
    /\ trackIdDuringQueryGeneration = NoTrack
    /\ remainingQueryGenerationTaskCount = 0
    /\ queryGenerationResults = {}
    /\ facadeEvents = <<>>
    /\ cacheLoadFinishedEvents = {}
    /\ cachedStartsInPhase = {}
    /\ trackQueryFinishedEvents = {}
    /\ pitchBeforeTrackQueryFinished = {}
    /\ generatedTasks = {}
    /\ thrown = "none"

\* no TaskGraph is constructed apart from the one of buildTaskGraph
NoTaskGraph ==
    /\ ctorTasks = <<>>
    /\ ctorDependencies = <<>>
    /\ taskGraph = NoGraph

\* the phrase counts of the snapshots of 1..NumTracks tracks and at most n phrases in all
\* no Transport was constructed
NoTransport ==
    /\ transport = [state |-> "none"]
    /\ currentTime = 0

\* no score is being looked at
NoScore ==
    /\ trackNotes = <<>>
    /\ overlappingNoteIds = {}
    /\ firstRestMinTicks = 0
    /\ scoreStep = "none"
    /\ phraseNotesList = <<>>
    /\ phraseFirstRestDurations = <<>>
    /\ requestArgs = [none |-> TRUE]
    /\ notesForRequestToEngine = <<>>

Snapshots(n) ==
    {f \in UNION {[1..k -> 0..n] : k \in 1..NumTracks} : SumUpTo(f, Len(f)) <= n}

\* the singer of a track without phrases is never read
Singers ==
    {g \in [Tracks -> BOOLEAN] : \A tr \in Tracks : phraseCount[tr] = 0 => ~g[tr]}

\* snapshots of at most MaxPhrases phrases in all, rendered by a client that keeps to the
\* preconditions of the API and whose listeners return
Init ==
    /\ phraseCount \in Snapshots(MaxPhrases)
    /\ singer \in Singers
    /\ selectorKind \in {"stub", "policy"}
    /\ recordEvents = FALSE
    /\ InitRenderer
    /\ NoTaskGraph
    /\ NoScore
    /\ NoTransport

Next ==
    \/ Render
    \/ StartRun
    \/ LoopTop
    \/ ProbeReturn
    \/ SelectReturn
    \/ TaskRun
    \/ Settle
    \/ RequestInterruption
    \/ AfterRun
    \/ RequestRenderingInterruption

Spec == Init /\ [][Next]_vars

\* the positions at which render and run() wait for a promise to settle
\* (generateAndSetPhrases, isCached, the selector, task.run, run() itself) or are
\* about to continue synchronously
PositionsInRender == {"genPhrases", "loopTop", "probe", "select", "running", "settle", "afterRun"}

\* the awaited promise settles and the code moves on: the steps StartRun, LoopTop,
\* ProbeReturn, SelectReturn, TaskRun, Settle and AfterRun are exactly the steps
\* that change the position or the task being probed or run
AwaitSettles ==
    /\ pc \in PositionsInRender
    /\ \E q \in PositionsInRender \cup {"idle"}, t \in TaskSet \cup {NoTask} :
          /\ <<q, t>> # <<pc, current>>
          /\ pc' = q
          /\ current' = t

----------------------------------------------------------------------------
(* The facade with a client that may also call at the wrong time and whose  *)
(* listener records the events and may throw on renderingStarted and on     *)
(* renderingCompleted (SongTrackRenderer.dispatchEvent catches nothing).    *)

MaxFacadePhrases == 1

allButThrown == <<transportVars, scoreVars, graphVars, snapshotVars, rendererVars, runnerVars, eventVars, historyVars,
                  listenerVars, recordEvents, generatedTasks>>

\* render(snapshot) while a render is in progress
RenderRejected ==
    /\ ~RenderAccepted(isRendering)
    /\ thrown' = "Rendering is already in progress."
    /\ UNCHANGED allButThrown

\* requestRenderingInterruption() while no render is in progress
RequestRejected ==
    /\ ~RequestAccepted(isRendering)
    /\ thrown' = "Rendering is not in progress."
    /\ UNCHANGED allButThrown

\* render(snapshot) whose renderingStarted event makes a listener throw: the
\* dispatch is before the try block, so the finally block does not run
RenderingStartedListenerThrows ==
    /\ RenderAccepted(isRendering)
    /\ renders < MaxRenders
    /\ isRendering' = TRUE
    /\ renders' = renders + 1
    /\ renderResult' = "error"
    /\ facadeEvents' = IF recordEvents
                        THEN <<FacadeEvent("renderingStarted", NoTrack, 0, {})>>
                        ELSE <<>>
    /\ thrown' = "none"
    /\ UNCHANGED <<transportVars, scoreVars, graphVars, snapshotVars, rendererInterruptionRequested, caches, slots, runnerVars,
                   eventVars, historyVars, adapterVars, adapterObsVars, recordEvents,
                   generatedTasks>>

\* run() has resolved, no interruption was requested, and the renderingCompleted
\* event makes a listener throw: render rejects through its finally block
RenderingCompletedListenerThrows ==
    /\ pc = "afterRun"
    /\ ~runRejected
    /\ ~rendererInterruptionRequested
    /\ renderResult' = "error"
    /\ renderingCompletedCount' = renderingCompletedCount + 1
    /\ facadeEvents' = Record(<<FacadeEvent("renderingCompleted", NoTrack, 0, {})>>)
    /\ rendererInterruptionRequested' = FALSE
    /\ isRendering' = FALSE
    /\ pc' = "idle"
    /\ UNCHANGED <<transportVars, scoreVars, graphVars, snapshotVars, caches, slots, renders, runStatus, cacheStatus,
                   runnableTasksPendingCacheCheck, runnableCachedTasks, isStarted, isRunning,
                   runnerInterruptionRequested, interrupted, current, isCachedTask, result,
                   eventVars, startedTasks, finishedTasks, cacheWriters, selectorGaveUp,
                   runRejected, requestedDuringRender, adapterVars, adapterObsVars,
                   recordEvents, generatedTasks, thrown>>

InitFacade ==
    /\ phraseCount \in Snapshots(MaxFacadePhrases)
    /\ singer \in Singers
    /\ selectorKind \in {"stub", "policy"}
    /\ recordEvents = TRUE
    /\ InitRenderer
    /\ NoTaskGraph
    /\ NoScore
    /\ NoTransport

NextFacade ==
    \/ Next
    \/ RenderRejected
    \/ RequestRejected
    \/ RenderingStartedListenerThrows
    \/ RenderingCompletedListenerThrows

SpecFacade == InitFacade /\ [][NextFacade]_vars

----------------------------------------------------------------------------
(* One render of a snapshot in which every track has a singer, the first    *)
(* track has MaxPhrases phrases and every other track has one, with a       *)
(* selector that may pick the Runnable tasks in any order.                  *)

RenderOnce == renders = 0 /\ Render

InitTwoTracks ==
    /\ phraseCount = [tr \in 1..NumTracks |-> IF tr = 1 THEN MaxPhrases ELSE 1]
    /\ singer = [tr \in 1..NumTracks |-> TRUE]
    /\ selectorKind = "policy"
    /\ recordEvents = FALSE
    /\ InitRenderer
    /\ NoTaskGraph
    /\ NoScore
    /\ NoTransport

NextTwoTracks ==
    \/ RenderOnce
    \/ StartRun
    \/ LoopTop
    \/ ProbeReturn
    \/ SelectReturn
    \/ TaskRun
    \/ Settle
    \/ RequestInterruption
    \/ AfterRun
    \/ RequestRenderingInterruption

SpecTwoTracks == InitTwoTracks /\ [][NextTwoTracks]_vars

\* run() on a runner whose run() was already called, during or after that run
RunAgain ==
    /\ isStarted
    /\ thrown' = "TaskRunner has already been started."
    /\ UNCHANGED allButThrown

\* requestInterruption() on a runner that is not running
RequestInterruptionRejected ==
    /\ isStarted
    /\ ~InterruptionAccepted(isRunning)
    /\ thrown' = "TaskRunner is not currently running."
    /\ UNCHANGED allButThrown

NextRunnerApi ==
    \/ NextTwoTracks
    \/ RunAgain
    \/ RequestInterruptionRejected

\* one render, with the holder of the runner calling its API at any moment
SpecRunnerApi == InitTwoTracks /\ [][NextRunnerApi]_vars

\* one render of any snapshot, in which every awaited promise settles
SpecFair == Init /\ [][NextTwoTracks]_vars /\ WF_<<pc, current>>(AwaitSettles)

----------------------------------------------------------------------------
(* The TaskGraph constructor on its own, given any list of at most          *)
(* MaxGraphTasks tasks out of MaxGraphTasks task objects with any           *)
(* dependencies among them (the dependencies of a task as a set).           *)

GraphTaskIds == 1..MaxGraphTasks

\* a variant of the constructor that fills childrenMap with the parents
TaskGraphConstructorNotInverting(tasks, deps) ==
    IF Cardinality(Range(tasks)) # Len(tasks)
    THEN [error |-> "Duplicate tasks are not allowed."]
    ELSE IF \E t \in Range(tasks) : ~(deps[t] \subseteq Range(tasks))
    THEN [error |-> "A dependency is not included in the task list."]
    ELSE [error |-> "none", tasks |-> tasks,
          parentsMap |-> [t \in Range(tasks) |-> deps[t]],
          childrenMap |-> [t \in Range(tasks) |-> deps[t]]]

\* new TaskGraph(tasks): the two checks, then parentsMap and childrenMap
TaskGraphConstructor(tasks, deps) ==
    IF Cardinality(Range(tasks)) # Len(tasks)
    THEN [error |-> "Duplicate tasks are not allowed."]
    ELSE IF \E t \in Range(tasks) : ~(deps[t] \subseteq Range(tasks))
    THEN [error |-> "A dependency is not included in the task list."]
    ELSE [error |-> "none",
          tasks |-> tasks,
          parentsMap |-> [t \in Range(tasks) |-> deps[t]],
          childrenMap |-> [t \in Range(tasks) |-> {c \in Range(tasks) : t \in deps[c]}]]

NewTaskGraph ==
    /\ taskGraph = NoGraph
    /\ taskGraph' = TaskGraphConstructor(ctorTasks, ctorDependencies)
    /\ UNCHANGED <<transportVars, scoreVars, ctorTasks, ctorDependencies, snapshotVars, rendererVars, runnerVars,
                   eventVars, historyVars, listenerVars, recordEvents, generatedTasks, thrown>>

InitGraph ==
    /\ ctorTasks \in UNION {[1..n -> GraphTaskIds] : n \in 0..MaxGraphTasks}
    /\ ctorDependencies \in [GraphTaskIds -> SUBSET GraphTaskIds]
    /\ taskGraph = NoGraph
    /\ phraseCount = <<0>>
    /\ singer = <<FALSE>>
    /\ selectorKind = "stub"
    /\ recordEvents = FALSE
    /\ InitRenderer
    /\ NoScore
    /\ NoTransport

NextGraph == NewTaskGraph

SpecGraph == InitGraph /\ [][NextGraph]_vars

----------------------------------------------------------------------------
(* The score functions of generateAndSetPhrases and of the query, pitch and *)
(* volume requests, applied to the notes of one track.  The tempo is        *)
(* constant, so that a duration in seconds is a number of ticks and a       *)
(* frame is a number of ticks.                                              *)

Note(i, p, d) == [id |-> i, position |-> p, duration |-> d]
NoNote == Note(0, 0, 0)

Max(a, b) == IF a >= b THEN a ELSE b
Min(a, b) == IF a <= b THEN a ELSE b

RECURSIVE Sum(_)
Sum(s) == IF s = <<>> THEN 0 ELSE Head(s) + Sum(Tail(s))

\* track.notes.filter((value) => !overlappingNoteIds.has(value.id))
FilterOverlapping(notes, ids) == SelectSeq(notes, LAMBDA n : n.id \notin ids)

\* the for loop of extractPhraseNotes
RECURSIVE ExtractLoop(_, _, _, _)
ExtractLoop(notes, i, currentPhraseNotes, phraseNotes) ==
    IF i > Len(notes) THEN phraseNotes
    ELSE LET note == notes[i]
             currentNoteEndPos == note.position + note.duration
             pushed == Append(currentPhraseNotes, note)
         IN  IF i = Len(notes) \/ currentNoteEndPos # notes[i + 1].position
             THEN ExtractLoop(notes, i + 1, <<>>, Append(phraseNotes, pushed))
             ELSE ExtractLoop(notes, i + 1, pushed, phraseNotes)

\* a variant of extractPhraseNotes that never cuts
ExtractOnePhrase(notes) == IF notes = <<>> THEN <<>> ELSE <<notes>>

extractPhraseNotes(notes) == ExtractLoop(notes, 1, <<>>, <<>>)

\* getNoteDuration(4, tpqn): the ticks of a quarter note
QuarterNoteDuration == Tpqn

\* a variant without the case of a first note at position 0
calcPhraseFirstRestDurationFromPosition(prevPhraseLastNote, phraseFirstNote, minTicks) ==
    LET actual == IF prevPhraseLastNote = NoNote
                  THEN phraseFirstNote.position
                  ELSE phraseFirstNote.position
                       - (prevPhraseLastNote.position + prevPhraseLastNote.duration)
    IN  Max(1, Max(Min(actual, QuarterNoteDuration), minTicks))

\* minTicks stands for phraseFirstNote.position - secondToTick(tickToSecond(
\* phraseFirstNote.position) - phraseFirstRestMinDurationSeconds)
calcPhraseFirstRestDuration(prevPhraseLastNote, phraseFirstNote, minTicks) ==
    LET actual == IF prevPhraseLastNote = NoNote
                  THEN IF phraseFirstNote.position = 0
                       THEN QuarterNoteDuration
                       ELSE phraseFirstNote.position
                  ELSE phraseFirstNote.position
                       - (prevPhraseLastNote.position + prevPhraseLastNote.duration)
    IN  Max(1, Max(Min(actual, QuarterNoteDuration), minTicks))

\* createPhrasesFromNotes: the firstRestDuration of each phrase
FirstRestDurations(phraseNotes, minTicks) ==
    [i \in 1..Len(phraseNotes) |->
        calcPhraseFirstRestDuration(IF i = 1 THEN NoNote ELSE Last(phraseNotes[i - 1]),
                                    phraseNotes[i][1], minTicks)]

\* Math.round(tickToSecond(tick, tempos, tpqn) * frameRate) when a frame lasts
\* ticksPerFrame ticks; Math.round rounds a half upwards
TickToFrame(tick, ticksPerFrame) == (2 * tick + ticksPerFrame) \div (2 * ticksPerFrame)

\* the last loop of createNotesForRequestToEngine, from index i on
RECURSIVE EnsureFrameLengths(_, _)
EnsureFrameLengths(frameLengths, i) ==
    IF i > Len(frameLengths) THEN frameLengths
    ELSE LET frameToShift == Max(0, 1 - frameLengths[i])
             added == [frameLengths EXCEPT ![i] = @ + frameToShift]
             shifted == IF i < Len(frameLengths)
                        THEN [added EXCEPT ![i + 1] = @ - frameToShift]
                        ELSE added
         IN  EnsureFrameLengths(shifted, i + 1)

\* the frame lengths before that loop: leading rest, notes, trailing rest
FrameLengthsOfRequest(firstRestDuration, lastRestFrameLength, notes, ticksPerFrame) ==
    <<TickToFrame(notes[1].position, ticksPerFrame)
        - TickToFrame(notes[1].position - firstRestDuration, ticksPerFrame)>>
    \o [i \in 1..Len(notes) |->
            TickToFrame(notes[i].position + notes[i].duration, ticksPerFrame)
            - TickToFrame(notes[i].position, ticksPerFrame)]
    \o <<lastRestFrameLength>>

createNotesForRequestToEngine(firstRestDuration, lastRestFrameLength, notes, ticksPerFrame) ==
    EnsureFrameLengths(FrameLengthsOfRequest(firstRestDuration, lastRestFrameLength, notes,
                                             ticksPerFrame), 1)

nonScoreVars == <<transportVars, graphVars, snapshotVars, rendererVars, runnerVars, eventVars, historyVars,
                  listenerVars, recordEvents, generatedTasks, thrown>>

\* generateAndSetPhrases for the track
GenerateAndSetPhrases ==
    /\ scoreStep = "snapshot"
    /\ LET phraseNotes == extractPhraseNotes(FilterOverlapping(trackNotes, overlappingNoteIds))
       IN  /\ phraseNotesList' = phraseNotes
           /\ phraseFirstRestDurations' = FirstRestDurations(phraseNotes, firstRestMinTicks)
    /\ scoreStep' = "phrases"
    /\ UNCHANGED <<trackNotes, overlappingNoteIds, firstRestMinTicks, requestArgs,
                   notesForRequestToEngine, nonScoreVars>>

\* the request of a stage task for one phrase of the track
CreateNotesForRequest ==
    /\ scoreStep = "phrases"
    /\ \E i \in 1..Len(phraseNotesList), lastRestFrameLength \in 0..MaxLastRestFrames,
          ticksPerFrame \in 1..MaxTicksPerFrame :
          /\ requestArgs' = [phrase |-> i, lastRestFrameLength |-> lastRestFrameLength,
                             ticksPerFrame |-> ticksPerFrame]
          /\ notesForRequestToEngine' =
                 createNotesForRequestToEngine(phraseFirstRestDurations[i], lastRestFrameLength,
                                               phraseNotesList[i], ticksPerFrame)
    /\ scoreStep' = "request"
    /\ UNCHANGED <<trackNotes, overlappingNoteIds, firstRestMinTicks, phraseNotesList,
                   phraseFirstRestDurations, nonScoreVars>>

InitScore ==
    /\ \E n \in 0..MaxNotes :
          \E f \in [1..n -> (0..MaxPosition) \X (0..MaxDuration)] :
              trackNotes = [i \in 1..n |-> Note(i, f[i][1], f[i][2])]
    /\ overlappingNoteIds \in SUBSET (1..Len(trackNotes))
    /\ firstRestMinTicks \in 0..MaxMinRestTicks
    /\ scoreStep = "snapshot"
    /\ phraseNotesList = <<>>
    /\ phraseFirstRestDurations = <<>>
    /\ requestArgs = [none |-> TRUE]
    /\ notesForRequestToEngine = <<>>
    /\ phraseCount = <<0>>
    /\ singer = <<FALSE>>
    /\ selectorKind = "stub"
    /\ recordEvents = FALSE
    /\ InitRenderer
    /\ NoTaskGraph
    /\ NoTransport

NextScore ==
    \/ GenerateAndSetPhrases
    \/ CreateNotesForRequest

SpecScore == InitScore /\ [][NextScore]_vars

----------------------------------------------------------------------------
(* Vocabulary of the properties *)

StageKinds == {"query", "pitch", "volume", "voice"}

StageIndex(k) ==
    CASE k = "query" -> 1 [] k = "pitch" -> 2 [] k = "volume" -> 3 [] k = "voice" -> 4
      [] OTHER -> 0

Tasks == DOMAIN runStatus

SamePhrase(t, u) == t.track = u.track /\ t.phrase = u.phrase

\* the stage tasks of the phrase of t that come after t
LaterStages(t) ==
    {u \in Tasks : u.kind \in StageKinds /\ SamePhrase(t, u)
                   /\ StageIndex(u.kind) > StageIndex(t.kind)}

RunOver == pc \in {"afterRun", "idle"} /\ renders > 0

----------------------------------------------------------------------------
\* C1: failure isolation.  (a) Whenever a stage task (query, pitch, volume,
\* voice) of a phrase is Failed, every later stage task of that phrase is
\* Skipped and was never started.  (b) The step in which a stage task of a
\* phrase fails changes the run status of no stage task of any other phrase.
\* (c) While the run is in progress, a stage task whose own dependencies
\* all succeeded is never left AwaitingDependencies or Skipped, whatever
\* failed in other phrases.
C1_FailedStageSkipsLater ==
    \A t \in Tasks :
        (t.kind \in StageKinds /\ runStatus[t] = "Failed") =>
            \A u \in LaterStages(t) : runStatus[u] = "Skipped" /\ u \notin startedTasks

C1_OthersRunnable ==
    isRunning =>
        \A u \in Tasks :
            (u.kind \in StageKinds /\ Dependencies(u) # <<>>
             /\ \A d \in Range(Dependencies(u)) : runStatus[d] = "Success")
                => runStatus[u] \notin {"AwaitingDependencies", "Skipped"}

C1_FailureStep ==
    \A t \in Tasks :
        (t.kind \in StageKinds /\ runStatus[t] # "Failed"
         /\ t \in DOMAIN runStatus' /\ runStatus'[t] = "Failed") =>
            \A u \in Tasks :
                (u.kind \in StageKinds /\ ~SamePhrase(t, u)) => runStatus'[u] = runStatus[u]

C1_FailureIsolation ==
    [][C1_FailedStageSkipsLater' /\ C1_OthersRunnable' /\ C1_FailureStep]_vars

\* a pitch task failed, its volume and voice tasks are Skipped, and the voice
\* task of another phrase of the same track has succeeded
C1_Witness ==
    \E t \in Tasks : \E u \in Tasks :
        /\ t.kind = "pitch" /\ runStatus[t] = "Failed"
        /\ runStatus[Task("voice", t.track, t.phrase)] = "Skipped"
        /\ u.kind = "voice" /\ u.track = t.track /\ u.phrase # t.phrase
        /\ runStatus[u] = "Success"
        /\ isRunning

----------------------------------------------------------------------------
\* C2: what runs when query generation fails for a subset of the phrases.
\* In a run that is over, was not interrupted, whose selector returned a
\* Runnable task whenever one existed, and in which no task other than a
\* query task failed: the adjust task of a track was started iff some query
\* task of the track succeeded or the track has no query task at all (no
\* phrase, or no singer); and a pitch, volume or voice task was started iff
\* the query task of its phrase succeeded and the adjust task of its track
\* was started.
C2_Scenario ==
    /\ RunOver
    /\ ~interrupted
    /\ ~selectorGaveUp
    /\ ~runRejected
    /\ \A t \in Tasks : t.kind # "query" => runStatus[t] # "Failed"

C2_SomeQuerySucceeded(tr) ==
    \E q \in Range(QueryTasksOf(tr)) : runStatus[q] = "Success"

C2_StagesRunIff ==
    \A t \in Tasks :
        t.kind \in {"pitch", "volume", "voice"} =>
            (t \in startedTasks <=>
                (/\ runStatus[Task("query", t.track, t.phrase)] = "Success"
                 /\ AdjustTaskOf(t.track) \in startedTasks))

C2_RunsIffQuerySucceeded ==
    C2_Scenario =>
        /\ \A tr \in Tracks :
              AdjustTaskOf(tr) \in startedTasks <=>
                  (C2_SomeQuerySucceeded(tr) \/ QueryTasksOf(tr) = <<>>)
        /\ C2_StagesRunIff

\* C2 as stated: the adjust task was started iff some query task succeeded
C2_AsStated ==
    C2_Scenario =>
        /\ \A tr \in Tracks :
              AdjustTaskOf(tr) \in startedTasks <=> C2_SomeQuerySucceeded(tr)
        /\ C2_StagesRunIff

\* a track with two phrases: one query failed, the other succeeded, the adjust
\* task ran, the voice task of the good phrase ran, no stage of the bad one did
C2_Witness ==
    /\ C2_Scenario
    /\ \E tr \in Tracks : \E i, j \in 1..MaxPhrases :
        /\ Task("query", tr, i) \in Tasks /\ Task("query", tr, j) \in Tasks
        /\ runStatus[Task("query", tr, i)] = "Failed"
        /\ runStatus[Task("query", tr, j)] = "Success"
        /\ AdjustTaskOf(tr) \in startedTasks
        /\ Task("voice", tr, j) \in startedTasks
        /\ Task("pitch", tr, i) \notin startedTasks

----------------------------------------------------------------------------
\* C3: interruption of the runner.  With requestInterruption() called during
\* a run: (a) the task in flight is not cancelled: its run settles, it gets
\* the status of its result (Success or Failed), a successful cacheable task
\* has its key in the cache, and its taskFinished event is dispatched; (b)
\* the flag is read only at the top of a loop iteration, and the iteration
\* that reads it starts no task and ends the run with the interrupted event;
\* (c) under a pending request a task can still be started only by the
\* iteration that was suspended in a cache probe or in the selector when the
\* request arrived, and a run that ends under a pending request without
\* having read the flag ends from the selector, with the completed event.
C3_InFlightFinishes ==
    /\ (pc = "running" /\ pc' # pc) =>
          /\ pc' = "settle"
          /\ result' \in {"Success", "Failed"}
          /\ current' = current
          /\ (result' = "Success" /\ IsCacheable(current)) => CacheKey(current) \in caches'
    /\ (pc = "settle" /\ pc' # pc) =>
          /\ pc' = "loopTop"
          /\ runStatus'[current] = result
          /\ lastEvent' = Event("taskFinished", current, isCachedTask, result)
          /\ current \in finishedTasks'

C3_ObservedAtLoopTop ==
    (runnerInterruptionRequested /\ pc = "loopTop" /\ pc' # pc) =>
        /\ pc' = "afterRun"
        /\ interrupted'
        /\ lastEvent'.type = "interrupted"
        /\ startedTasks' = startedTasks
        /\ \A t \in Tasks : runStatus'[t] # "Running"

C3_LateStartOnlyFromAwait ==
    /\ (runnerInterruptionRequested /\ startedTasks' # startedTasks) =>
          pc \in {"probe", "select"}
    /\ (runnerInterruptionRequested /\ pc # "afterRun" /\ pc' = "afterRun"
         /\ lastEvent'.type # "interrupted") =>
          (pc = "select" /\ lastEvent'.type = "completed")

C3_Interruption ==
    [][C3_InFlightFinishes /\ C3_ObservedAtLoopTop /\ C3_LateStartOnlyFromAwait]_vars

\* C3 as stated: once the request is made no task enters Running and the run
\* ends with the interrupted event
C3_AsStated ==
    [][runnerInterruptionRequested =>
          /\ startedTasks' = startedTasks
          /\ (pc # "afterRun" /\ pc' = "afterRun") => lastEvent'.type = "interrupted"]_vars

\* a run that ended with interrupted: a task that wrote its cache has finished
\* with Success, and a task that was never started has been swept to Skipped
C3_Witness ==
    /\ pc = "afterRun"
    /\ interrupted
    /\ lastEvent.type = "interrupted"
    /\ \E t \in finishedTasks :
          runStatus[t] = "Success" /\ IsCacheable(t) /\ CacheKey(t) \in caches
    /\ \E t \in Tasks : t \notin startedTasks /\ runStatus[t] = "Skipped"

----------------------------------------------------------------------------
\* C4: the facade's interruption request reaches the runner.  As stated: once
\* requestRenderingInterruption() has been called during a render, the next
\* loop iteration of the runner of that render exits the loop and starts no
\* task.
C4_AsStated ==
    [][(rendererInterruptionRequested /\ pc = "loopTop" /\ pc' # pc) =>
          (pc' = "afterRun" /\ startedTasks' = startedTasks)]_vars

----------------------------------------------------------------------------
\* C5: the result of render.  When a render call has returned (without
\* run() having rejected): if requestRenderingInterruption() was called while
\* it was in progress, it returned {interrupted} and dispatched no
\* renderingCompleted event; otherwise it returned {complete} and dispatched
\* renderingCompleted once.
C5_RenderResult ==
    (pc = "idle" /\ renders > 0 /\ ~runRejected) =>
        IF requestedDuringRender
        THEN renderResult = "interrupted" /\ renderingCompletedCount = 0
        ELSE renderResult = "complete" /\ renderingCompletedCount = 1

\* a render that returned {interrupted} although its runner ran to completion:
\* the request was made, tasks were run, and the runner ended with completed
C5_Witness ==
    /\ pc = "idle"
    /\ requestedDuringRender
    /\ renderResult = "interrupted"
    /\ finishedTasks # {}
    /\ lastEvent.type = "completed"

----------------------------------------------------------------------------
\* C6: cache writes and the taskFinished event.  (a) A cache changes only in
\* the run of the task in flight, by the key of that task, and only when that
\* run succeeds.  (b) A task that wrote a cache entry either has had its
\* taskFinished event dispatched, with result Success, or is the task whose
\* run has just returned Success and whose taskFinished event is the next
\* event: the entry is in the cache before the event.  (c) When the run is
\* over, every task that wrote a cache entry has had its taskFinished event.
C6_WriteStep ==
    caches' # caches =>
        /\ pc = "running"
        /\ IsCacheable(current)
        /\ caches' = caches \cup {CacheKey(current)}
        /\ result' = "Success"

C6_WritersFinish ==
    /\ \A t \in cacheWriters :
          \/ t \in finishedTasks /\ runStatus[t] = "Success"
          \/ pc = "settle" /\ t = current /\ result = "Success"
    /\ \A t \in cacheWriters : CacheKey(t) \in caches
    /\ RunOver => cacheWriters \subseteq finishedTasks

C6_CacheOnlyByFinishedTasks == [][C6_WriteStep /\ C6_WritersFinish']_vars

\* the run of a task has stored its artifact and returned; its taskFinished
\* event has not been dispatched yet
C6_Witness ==
    /\ pc = "settle"
    /\ result = "Success"
    /\ current \in cacheWriters
    /\ current \notin finishedTasks
    /\ CacheKey(current) \in caches

----------------------------------------------------------------------------
\* C7: when run() has terminated (normally, by interruption, or by an error
\* thrown in the loop) the run status of every task is Success, Failed or
\* Skipped.
C7_AllSettledAtEnd ==
    RunOver => \A t \in Tasks : IsSettled(runStatus[t])

\* run() rejected: some task had succeeded, some task was swept to Skipped
C7_Witness ==
    /\ pc = "afterRun"
    /\ runRejected
    /\ \E t \in Tasks : runStatus[t] = "Success"
    /\ \E t \in Tasks : runStatus[t] = "Skipped" /\ t \notin startedTasks

----------------------------------------------------------------------------
\* C8: the events of a run.  The first event of a run is started.  While the
\* loop runs no terminal event has been dispatched.  When the run is over
\* exactly one terminal event has been dispatched and it is the last event:
\* interrupted iff the loop was left at the interruption check, otherwise
\* completed (also when the loop was left by an error).  No event follows
\* the terminal event of a run.
C8_EventsOfARun ==
    /\ eventCount > 0 => firstEvent.type = "started"
    /\ isStarted => eventCount > 0
    /\ pc \in {"loopTop", "probe", "select", "running", "settle"} =>
          terminalCount = 0 /\ ~IsTerminal(lastEvent)
    /\ RunOver =>
          /\ terminalCount = 1
          /\ IsTerminal(lastEvent)
          /\ lastEvent.type = "interrupted" <=> interrupted
          /\ runRejected => lastEvent.type = "completed"

C8_NothingAfterTerminal ==
    (IsTerminal(lastEvent) /\ eventCount' # eventCount) => eventCount' = 0

C8_StartedFirstTerminalLast == [][C8_EventsOfARun' /\ C8_NothingAfterTerminal]_vars

\* a run whose loop was left by an error after tasks had run: started was the
\* first event and completed is the last
C8_Witness ==
    /\ pc = "afterRun"
    /\ ~interrupted
    /\ runRejected
    /\ lastEvent.type = "completed"
    /\ firstEvent.type = "started"
    /\ eventCount > 2

----------------------------------------------------------------------------
\* C9: order of the stages of a phrase.  A pitch, volume or voice task that
\* has been started has every dependency finished with Success (the query
\* task of its phrase and the adjust task of its track for pitch, the pitch
\* task for volume, the volume task for voice); an adjust task that has been
\* started has every query task of its track finished.  This holds for every
\* selector and in every render, whatever the caches hold.
C9_StageOrder ==
    \A t \in startedTasks :
        /\ t.kind \in {"pitch", "volume", "voice"} =>
              \A d \in Range(Dependencies(t)) :
                  d \in finishedTasks /\ runStatus[d] = "Success"
        /\ t.kind = "adjust" =>
              \A d \in Range(Dependencies(t)) : d \in finishedTasks

\* in a second render a voice task found in the cache has been started while
\* a task of another phrase is still waiting
C9_Witness ==
    /\ renders = 2
    /\ \E t \in startedTasks :
          /\ t.kind = "voice"
          /\ cacheStatus[t] = "Cached"
          /\ Task("query", t.track, t.phrase) \in finishedTasks
    /\ \E u \in Tasks : u.kind = "pitch" /\ runStatus[u] = "Runnable"

----------------------------------------------------------------------------
\* C10: one task at a time.  At most one task is Running, and it is the task
\* the loop is awaiting.  The event that follows taskStarted of a task is
\* taskFinished of the same task with the same isCachedTask, and taskFinished
\* follows nothing else.
C10_OneRunning ==
    /\ Cardinality({t \in Tasks : runStatus[t] = "Running"}) <= 1
    /\ \A t \in Tasks :
          runStatus[t] = "Running" => (t = current /\ pc \in {"running", "settle"})

C10_Alternation ==
    eventCount' = eventCount + 1 =>
        /\ lastEvent.type = "taskStarted" =>
              /\ lastEvent'.type = "taskFinished"
              /\ lastEvent'.task = lastEvent.task
              /\ lastEvent'.isCachedTask = lastEvent.isCachedTask
        /\ lastEvent'.type = "taskFinished" =>
              /\ lastEvent.type = "taskStarted"
              /\ lastEvent.task = lastEvent'.task

C10_OneTaskAtATime == [][C10_OneRunning' /\ C10_Alternation]_vars

\* a cached task is in flight while another task is Runnable
C10_Witness ==
    /\ pc = "running"
    /\ isCachedTask
    /\ lastEvent = Event("taskStarted", current, TRUE, "none")
    /\ runStatus[current] = "Running"
    /\ \E u \in Tasks : runStatus[u] = "Runnable"

----------------------------------------------------------------------------
\* C11: calls at the wrong time.  A render call made while a render is in
\* progress raises and changes nothing: no render is begun and none ends, the
\* interruption flag and the events dispatched stay as they are, and the render
\* in progress goes on to return the result it would have returned.  A
\* requestRenderingInterruption call made while no render is in progress raises
\* and the interruption flag stays unset.
C11_MisuseRaises ==
    [][ /\ isRendering => renders' = renders
        /\ ~isRendering => ~rendererInterruptionRequested'
        /\ (thrown' # thrown /\ thrown' = "Rendering is already in progress.")
              => isRendering /\ UNCHANGED allButThrown
        /\ (thrown' # thrown /\ thrown' = "Rendering is not in progress.")
              => ~isRendering /\ UNCHANGED allButThrown
        /\ (pc = "afterRun" /\ pc' = "idle" /\ renderResult' # "error")
              => renderResult' = IF requestedDuringRender THEN "interrupted" ELSE "complete"
      ]_vars

\* a render call was rejected while a render was running tasks, and that render
\* has since returned {complete}
C11_Witness ==
    /\ thrown = "Rendering is already in progress."
    /\ pc = "idle"
    /\ ~isRendering
    /\ renderResult = "complete"
    /\ finishedTasks # {}

----------------------------------------------------------------------------
\* C12: the renderer is idle after every render.  Once a render call has ended,
\* whether it returned {complete} or {interrupted} or threw (a listener that
\* throws on renderingStarted or on renderingCompleted included), isRendering
\* is false and the interruption flag is cleared.
C12_AsStated ==
    (renders > 0 /\ renderResult # "none") =>
        ~isRendering /\ ~rendererInterruptionRequested

----------------------------------------------------------------------------
\* C13: cached tasks first.  The selector is awaited only when no task is both
\* Runnable and Cached, and while a task that is not Cached is running (it was
\* started by the selector) no task is both Runnable and Cached.
C13_CachedFirst ==
    LET RunnableCached == {t \in RunnableTasks : cacheStatus[t] = "Cached"}
    IN  /\ pc = "select" => RunnableCached = {}
        /\ (pc = "running" /\ cacheStatus[current] # "Cached") => RunnableCached = {}

\* the selector is consulted, with Runnable tasks to choose from, after the
\* cached tasks of the run have been started and finished ahead of it
C13_Witness ==
    /\ pc = "select"
    /\ RunnableTasks # {}
    /\ \E t \in finishedTasks : cacheStatus[t] = "Cached"

----------------------------------------------------------------------------
\* C14: the cache-load phase of a render.  A render that returned {complete}
\* has dispatched cacheLoadFinished exactly once, after renderingStarted and
\* before every trackQueryGenerationStarted, pitchGenerationStarted,
\* volumeGenerationStarted and voiceSynthesisStarted event.
C14_AsStated ==
    (pc = "idle" /\ renderResult = "complete") =>
        LET loads == {i \in DOMAIN facadeEvents : facadeEvents[i].type = "cacheLoadFinished"}
        IN  /\ Cardinality(loads) = 1
            /\ \A i \in loads :
                  /\ \E j \in 1..(i - 1) : facadeEvents[j].type = "renderingStarted"
                  /\ \A j \in DOMAIN facadeEvents :
                        IsGenerationStarted(facadeEvents[j]) => i < j

----------------------------------------------------------------------------
\* C15: what cacheLoadFinished lists.  The set of phrase keys carried by a
\* cacheLoadFinished event contains the phrase key of every task that was
\* started with isCachedTask = true during the cache-load phase the event
\* closes.
C15_AsStated ==
    \A ev \in cacheLoadFinishedEvents : ev.loaded \subseteq ev.keys

----------------------------------------------------------------------------
\* C16: the events of a cold render.  For a snapshot of one track with a singer
\* and a single phrase, rendered first on a renderer whose caches are empty,
\* with no task failing, the events dispatched are exactly renderingStarted,
\* cacheLoadFinished with the empty set, trackQueryGenerationStarted,
\* trackQueryGenerationFinished, pitchGenerationStarted,
\* pitchGenerationFinished, volumeGenerationStarted, volumeGenerationFinished,
\* voiceSynthesisStarted, voiceSynthesisFinished, renderingCompleted.
C16_AsStated ==
    LET expected == <<"renderingStarted", "cacheLoadFinished",
                      "trackQueryGenerationStarted", "trackQueryGenerationFinished",
                      "pitchGenerationStarted", "pitchGenerationFinished",
                      "volumeGenerationStarted", "volumeGenerationFinished",
                      "voiceSynthesisStarted", "voiceSynthesisFinished",
                      "renderingCompleted">>
    IN  ( /\ phraseCount = <<1>> /\ singer = <<TRUE>>
          /\ renders = 1 /\ pc = "idle" /\ renderResult = "complete" /\ ~interrupted
          /\ \A t \in DOMAIN runStatus : runStatus[t] # "Failed" )
        => /\ [i \in DOMAIN facadeEvents |-> facadeEvents[i].type] = expected
           /\ facadeEvents[2].keys = {}

----------------------------------------------------------------------------
\* C17: one trackQueryGenerationFinished per track.  When a run in which the
\* selector returned Runnable tasks until none remained is over, then for every
\* track with query tasks that were generated there is exactly one
\* trackQueryGenerationFinished event of that track, its results are exactly
\* the phrases of that track, and no pitch event of the track came before it,
\* whatever order the selector chose the query tasks of the tracks in.
C17_AsStated ==
    (RunOver /\ ~interrupted /\ ~selectorGaveUp /\ ~runRejected) =>
        \A tr \in Tracks :
            LET queries == {q \in TaskSet : q.kind = "query" /\ q.track = tr}
                finished == {e \in trackQueryFinishedEvents : e.track = tr}
            IN  (queries \cap generatedTasks # {}) =>
                    /\ Cardinality(finished) = 1
                    /\ \A e \in finished : e.results = {PhraseKey(q) : q \in queries}
                    /\ tr \notin pitchBeforeTrackQueryFinished

----------------------------------------------------------------------------
\* C18: a failed task writes nothing.  The step in which the run() of a task
\* fails leaves the caches exactly as they were when the task was started and
\* writes no slot of its phrase.
C18_FailedTaskWritesNothing ==
    [][ (pc = "running" /\ result' = "Failed") =>
            /\ caches' = caches
            /\ slots' = slots
            /\ current \notin slots'
            /\ CacheKey(current) \notin caches'
      ]_vars

\* the volume generation of a phrase has failed after the query and the pitch of
\* the phrase were generated and stored
C18_Witness ==
    /\ pc = "settle"
    /\ result = "Failed"
    /\ current.kind = "volume"
    /\ current \notin slots
    /\ \E t \in cacheWriters : t.kind = "pitch" /\ SamePhrase(t, current)

----------------------------------------------------------------------------
\* C19: the caches only grow.  Over all renders of a renderer no step removes
\* an entry of a cache, and an artifact is generated and stored only under a
\* key that has no entry yet, so no entry is replaced; a later render loads
\* what an earlier render stored.
C19_CachesOnlyGrow ==
    [][ /\ caches \subseteq caches'
        /\ (pc = "running" /\ current \in generatedTasks')
              => CacheKey(current) \notin caches
        /\ caches' # caches
              => pc = "running" /\ caches' = caches \cup {CacheKey(current)}
      ]_vars

\* in the second render a task has loaded from the cache what the first render
\* stored, without generating it again
C19_Witness ==
    /\ renders = 2
    /\ pc = "settle"
    /\ result = "Success"
    /\ isCachedTask
    /\ CacheKey(current) \in caches
    /\ current \notin generatedTasks

----------------------------------------------------------------------------
\* C20: idempotence.  As stated: the second render of the snapshot makes no
\* engine call.
C20_AsStated ==
    renders = 2 => generatedTasks = {}

\* the caches hold the artifact of every cacheable task of the snapshot
AllKeysCached == \A t \in TaskSet : IsCacheable(t) => CacheKey(t) \in caches

\* C20, with the caches primed: in a later render of the snapshot that began
\* with the artifact of every cacheable task in the caches (the render has
\* stored nothing), no engine call is made and every cacheable task that was
\* started was found cached.
C20_Idempotence ==
    (renders > 1 /\ AllKeysCached /\ cacheWriters = {}) =>
        /\ generatedTasks = {}
        /\ \A t \in startedTasks : IsCacheable(t) => cacheStatus[t] = "Cached"

\* the second render ran every task of a snapshot with phrases from primed
\* caches and made no engine call
C20_Witness ==
    /\ renders = 2
    /\ RunOver
    /\ AllKeysCached
    /\ cacheWriters = {}
    /\ generatedTasks = {}
    /\ \E t \in finishedTasks : t.kind = "voice"
    /\ \A t \in TaskSet : runStatus[t] = "Success"

----------------------------------------------------------------------------
\* the phrases of the snapshot that get tasks: those of the tracks with a singer
SungPhrases == {PhraseKey(q) : q \in {t \in TaskSet : t.kind = "query"}}

\* the four artifacts of phrase p were in the caches when the render began: they
\* are in the caches and this render has stored none of them
WarmAtStart(p) ==
    \A k \in StageKinds :
        /\ CacheKey(Task(k, p.track, p.phrase)) \in caches
        /\ Task(k, p.track, p.phrase) \notin cacheWriters

----------------------------------------------------------------------------
\* context.phrases: the phrases created by generateAndSetPhrases, of every track
Phrases == {p \in [track : Tracks, phrase : 1..MaxPhrases] : p.phrase <= phraseCount[p.track]}

\* the flag of a phrase: createPhrasesFromNotes sets it to false and nothing assigns it
errorOccurredDuringRendering(p) == FALSE

\* query, pitch, volume and voice of the phrase are present, each with its key
HasAllArtifacts(p) == \A k \in StageKinds : Task(k, p.track, p.phrase) \in slots

\* C22: the phrase map of a complete result.  When render has returned
\* {complete} (its runner was not interrupted), every phrase of the map that belongs to a track with a singer
\* either has its four artifacts (query, pitch, volume, voice, each with its
\* key) or has errorOccurredDuringRendering set.
C22_AsStated ==
    (pc = "idle" /\ renders > 0 /\ renderResult = "complete" /\ ~interrupted) =>
        \A p \in Phrases \cap SungPhrases :
            HasAllArtifacts(p) \/ errorOccurredDuringRendering(p)

----------------------------------------------------------------------------
NoTrackHasSinger == \A tr \in Tracks : ~singer[tr]

\* C23, as stated: for a snapshot in which no track has a singer the task graph
\* handed to the runner contains no task.
C23_AsStated ==
    (isStarted /\ NoTrackHasSinger) => DOMAIN runStatus = {}

\* C23: a snapshot without singers.  When no track has a singer, the task graph
\* consists of the phoneme-timing task of each track and of nothing else (no
\* query, pitch, volume or voice task), no artifact slot of any phrase is ever
\* written, no cache entry is stored, and a render that was not asked to stop
\* returns {complete}.
C23_NoSingerGraph ==
    NoTrackHasSinger =>
        /\ isStarted => DOMAIN runStatus = {AdjustTaskOf(tr) : tr \in Tracks}
        /\ \A p \in Phrases : \A k \in StageKinds : Task(k, p.track, p.phrase) \notin slots
        /\ caches = {}
        /\ (pc = "idle" /\ renders > 0 /\ ~requestedDuringRender /\ ~runRejected)
              => renderResult = "complete"

\* a snapshot with phrases and no singer was rendered to {complete}; the
\* phoneme-timing task of a track was run by the selector
C23_Witness ==
    /\ NoTrackHasSinger
    /\ Phrases # {}
    /\ pc = "idle"
    /\ renderResult = "complete"
    /\ \E tr \in Tracks : AdjustTaskOf(tr) \in finishedTasks
    /\ \A p \in Phrases : ~\E k \in StageKinds : Task(k, p.track, p.phrase) \in slots

----------------------------------------------------------------------------
----------------------------------------------------------------------------
\* the tasks reached from the set ts by following dependencies at most n times
RECURSIVE DependenciesWithin(_, _, _)
DependenciesWithin(parents, ts, n) ==
    IF n = 0 THEN ts
    ELSE DependenciesWithin(parents, ts \cup UNION {parents[t] : t \in ts}, n - 1)

\* some task of the graph depends, directly or through other tasks, on itself
HasCycle(g) ==
    \E t \in DOMAIN g.parentsMap :
        t \in DependenciesWithin(g.parentsMap, g.parentsMap[t], MaxGraphTasks)

\* C25: cycles are rejected.  Whenever the TaskGraph constructor has returned a
\* graph (it did not throw), the dependency relation of the graph has no cycle.
C25_AsStated ==
    taskGraph.error = "none" => ~HasCycle(taskGraph)

----------------------------------------------------------------------------
\* the run is over, it was not interrupted and the selector returned a Runnable
\* task whenever there was one
RanToTheEnd == RunOver /\ ~interrupted /\ ~selectorGaveUp /\ ~runRejected

\* C26: no stalling.  Every run terminates.  A run that was not interrupted
\* and whose selector returned a Runnable task whenever there was one ends with
\* completed; each of its tasks is then Success or Failed and was run, or is
\* Skipped, was never started, and has its skip condition triggered by parents
\* that are Failed or Skipped.  No task is started twice in a run.
C26_NoStalling ==
    /\ [](RanToTheEnd =>
            /\ lastEvent.type = "completed"
            /\ \A t \in Tasks :
                  \/ runStatus[t] \in {"Success", "Failed"} /\ t \in finishedTasks
                  \/ /\ runStatus[t] = "Skipped"
                     /\ t \notin startedTasks
                     /\ Dependencies(t) # <<>>
                     /\ SkipTriggered(t, runStatus))
    /\ [][\A t \in Tasks :
            (t \in DOMAIN runStatus' /\ runStatus'[t] = "Running" /\ runStatus[t] # "Running")
                => t \notin startedTasks]_vars
    /\ (isRunning ~> ~isRunning)

\* a run went to its end with a failed task, a task skipped for it, and a task
\* of another phrase that ran to Success
C26_Witness ==
    /\ RanToTheEnd
    /\ pc = "afterRun"
    /\ \E t, u, v \in Tasks :
          /\ runStatus[t] = "Failed"
          /\ runStatus[u] = "Skipped"
          /\ runStatus[v] = "Success" /\ v.kind = "voice"

----------------------------------------------------------------------------
\* C27: statuses agree with the dependencies.  In every state, a task that is
\* Runnable, Running, Success or Failed has all its parents settled and its
\* skip condition not triggered: with AnyDependencyFailedOrSkipped every parent
\* is Success, with AllDependenciesFailedOrSkipped and at least one parent some
\* parent is Success.  While the loop is running (before the final sweep) a
\* Skipped task has its skip condition triggered: some parent, respectively
\* every parent, is Failed or Skipped.
C27_StatusesAgree ==
    \A t \in Tasks :
        LET parents == Range(Dependencies(t))
            any == SkipCondition(t) = "AnyDependencyFailedOrSkipped"
        IN  /\ runStatus[t] \in {"Runnable", "Running", "Success", "Failed"} =>
                /\ \A d \in parents : runStatus[d] \in {"Success", "Failed", "Skipped"}
                /\ any => \A d \in parents : runStatus[d] = "Success"
                /\ (~any /\ parents # {}) => \E d \in parents : runStatus[d] = "Success"
            /\ (isRunning /\ runStatus[t] = "Skipped") =>
                /\ parents # {}
                /\ any => \E d \in parents : runStatus[d] \in {"Failed", "Skipped"}
                /\ ~any => \A d \in parents : runStatus[d] \in {"Failed", "Skipped"}

\* the phoneme-timing task of a track is running after one query of the track
\* failed and another succeeded, and the pitch task of the failed phrase is
\* already Skipped
C27_Witness ==
    /\ pc = "running"
    /\ current.kind = "adjust"
    /\ \E d \in Range(Dependencies(current)) : runStatus[d] = "Failed"
    /\ \E d \in Range(Dependencies(current)) : runStatus[d] = "Success"
    /\ \E t \in Tasks : t.kind = "pitch" /\ runStatus[t] = "Skipped"

----------------------------------------------------------------------------
\* C28: taskFinished{T} is emitted before the result of T is propagated: in the
\* task statuses that a listener reads while it receives taskFinished{T}, no
\* child of T is Runnable, and no child of T is Skipped on account of T (a
\* child with AnyDependencyFailedOrSkipped that has no other failed or skipped
\* parent, or a child with AllDependenciesFailedOrSkipped).
\* Violated: the statuses are propagated before the event is dispatched.
C28_ChangedByResult(c, finished, rs) ==
    \/ rs[c] = "Runnable"
    \/ /\ rs[c] = "Skipped"
       /\ SkipCondition(c) = "AnyDependencyFailedOrSkipped" =>
              \A d \in Range(Dependencies(c)) \ {finished} : rs[d] \notin {"Failed", "Skipped"}

C28_AsStated ==
    (lastEvent.type = "taskFinished" /\ ~interrupted) =>
        \A c \in Range(ChildrenMap(lastEvent.task)) :
            ~C28_ChangedByResult(c, lastEvent.task, taskStatusesAtTaskFinished)

----------------------------------------------------------------------------
\* C29: cache probing.  isCached is awaited only for a cacheable task (a query,
\* pitch, volume or voice task), only while the task is Runnable with all its
\* parents settled, and only while its cacheStatus is still Unchecked, hence at
\* most once per task and run.  A task whose cacheStatus was set is cacheable
\* and has left AwaitingDependencies.  A non-cacheable task keeps cacheStatus
\* Unchecked, is never on the stack of cached runnable tasks, and is started
\* only with the task returned by the selector, never as a cached task.
C29_ProbeInvariant ==
    /\ pc = "probe" =>
          /\ current.kind \in StageKinds
          /\ runStatus[current] = "Runnable"
          /\ cacheStatus[current] = "Unchecked"
          /\ \A d \in Range(Dependencies(current)) :
                 runStatus[d] \in {"Success", "Failed", "Skipped"}
    /\ \A t \in Tasks :
          /\ cacheStatus[t] # "Unchecked" =>
                 t.kind \in StageKinds /\ runStatus[t] # "AwaitingDependencies"
          /\ t.kind \notin StageKinds =>
                 cacheStatus[t] = "Unchecked" /\ t \notin Range(runnableCachedTasks)

C29_StartedBySelectorOnly ==
    \A t \in Tasks :
        (t.kind \notin StageKinds /\ t \notin startedTasks /\ t \in startedTasks') =>
            pc = "select" /\ ~isCachedTask'

C29_CacheProbing == []C29_ProbeInvariant /\ [][C29_StartedBySelectorOnly]_vars

\* a run in which the phoneme-timing task was started while one task had been
\* probed Cached and another NotCached
C29_Witness ==
    /\ \E t \in startedTasks : t.kind = "adjust" /\ cacheStatus[t] = "Unchecked"
    /\ \E t \in Tasks : cacheStatus[t] = "Cached"
    /\ \E t \in Tasks : cacheStatus[t] = "NotCached"

----------------------------------------------------------------------------
\* C30: with the selector installed by the renderer (it returns none), every
\* task that was started in a render has cacheStatus Cached, and a task is
\* Running only as a cached task; the selector is asked only when no Runnable
\* task is Cached and nothing is left to probe, and when it has answered the
\* run ends at once: nothing is started, the sweep is done and completed is
\* dispatched.  With any selector, a task started without asking the selector
\* is a Cached one.
C30_OnlyCachedStarted ==
    /\ selectorKind = "stub" =>
          /\ \A t \in startedTasks : cacheStatus[t] = "Cached"
          /\ pc \in {"running", "settle"} => isCachedTask /\ cacheStatus[current] = "Cached"
    /\ pc = "select" =>
          /\ runnableTasksPendingCacheCheck = <<>>
          /\ \A t \in Tasks : runStatus[t] = "Runnable" => cacheStatus[t] # "Cached"

C30_RunEndsAtSelector ==
    /\ (selectorKind = "stub" /\ pc = "select" /\ pc' # "select") =>
          /\ pc' = "afterRun"
          /\ ~isRunning'
          /\ startedTasks' = startedTasks
          /\ lastEvent'.type = "completed"
    /\ \A t \in Tasks :
          (pc # "select" /\ t \notin startedTasks /\ t \in startedTasks') =>
              cacheStatus'[t] = "Cached"

C30_StubSelector == []C30_OnlyCachedStarted /\ [][C30_RunEndsAtSelector]_vars

\* a render with the installed selector is over: the selector returned none
\* while a task was Runnable, a probed task was NotCached and is now Skipped,
\* and no task was started
C30_Witness ==
    /\ selectorKind = "stub"
    /\ pc = "afterRun"
    /\ selectorGaveUp
    /\ startedTasks = {}
    /\ \E t \in Tasks : cacheStatus[t] = "NotCached" /\ runStatus[t] = "Skipped"

----------------------------------------------------------------------------
\* C31: run statuses are monotone.  Within one run a status changes only along
\* AwaitingDependencies -> Runnable -> Running -> Success or Failed, or from
\* AwaitingDependencies or Runnable to Skipped; Success, Failed and Skipped
\* never change; a task enters Running at most once (it was not started
\* before), and the slot of a phrase is empty when its task writes it.
C31_AllowedTransitions ==
    {<<"AwaitingDependencies", "Runnable">>, <<"Runnable", "Running">>,
     <<"Running", "Success">>, <<"Running", "Failed">>,
     <<"AwaitingDependencies", "Skipped">>, <<"Runnable", "Skipped">>}

C31_SameRun == renders' = renders /\ DOMAIN runStatus' = DOMAIN runStatus

C31_Step ==
    /\ C31_SameRun =>
          \A t \in Tasks :
              /\ runStatus'[t] # runStatus[t] =>
                     <<runStatus[t], runStatus'[t]>> \in C31_AllowedTransitions
              /\ (runStatus[t] # "Running" /\ runStatus'[t] = "Running") =>
                     t \notin startedTasks /\ t \in startedTasks'
    /\ \A t \in TaskSet : (t \notin slots /\ t \in slots') =>
          pc = "running" /\ current = t /\ runStatus[t] = "Running"

C31_MonotoneStatuses == [][C31_Step]_vars

\* a run is over in which one task went all the way to Failed, one was skipped
\* by the propagation and one wrote its slot
C31_Witness ==
    /\ pc = "afterRun"
    /\ \E t \in Tasks : runStatus[t] = "Failed" /\ t \in startedTasks
    /\ \E t \in Tasks : runStatus[t] = "Skipped"
    /\ \E t \in Tasks : runStatus[t] = "Success" /\ t \in slots

----------------------------------------------------------------------------
\* C32: when the selector returns something that is not a Runnable task of the
\* graph, run() rejects without starting it: in that step no task is started
\* and no task becomes Running, the only event dispatched is the terminal one
\* (completed), every task that was AwaitingDependencies or Runnable is swept
\* to Skipped and every other status is kept, and the run is over.  run()
\* rejects nowhere else.
C32_Step ==
    (~runRejected /\ runRejected') =>
        /\ pc = "select"
        /\ startedTasks' = startedTasks
        /\ \A t \in Tasks :
              runStatus'[t] = IF runStatus[t] \in {"AwaitingDependencies", "Runnable"}
                              THEN "Skipped" ELSE runStatus[t]
        /\ eventCount' = eventCount + 1
        /\ terminalCount' = terminalCount + 1
        /\ lastEvent'.type = "completed"
        /\ ~isRunning'
        /\ pc' = "afterRun"

C32_InvalidPickRejects == [][C32_Step]_vars

\* run() has rejected after a task had succeeded, and a task was swept
C32_Witness ==
    /\ runRejected
    /\ pc = "afterRun"
    /\ lastEvent.type = "completed"
    /\ \E t \in Tasks : runStatus[t] = "Success"
    /\ \E t \in Tasks : runStatus[t] = "Skipped" /\ cacheStatus[t] = "NotCached"

----------------------------------------------------------------------------
\* C33: new TaskGraph(tasks) returns a graph exactly when no task occurs twice
\* in the list and every dependency of every listed task is in the list, and
\* throws otherwise.  The graph keeps the list, its parentsMap gives each
\* listed task its dependencies, and childrenMap is the inverse relation:
\* c is a child of p iff p is a dependency of c.
C33_ListIsValid ==
    /\ \A i, j \in 1..Len(ctorTasks) : ctorTasks[i] = ctorTasks[j] => i = j
    /\ \A i \in 1..Len(ctorTasks) : \A d \in ctorDependencies[ctorTasks[i]] :
          \E j \in 1..Len(ctorTasks) : ctorTasks[j] = d

C33_Construction ==
    taskGraph # NoGraph =>
        /\ taskGraph.error = "none" <=> C33_ListIsValid
        /\ taskGraph.error = "none" =>
              /\ taskGraph.tasks = ctorTasks
              /\ DOMAIN taskGraph.parentsMap = Range(ctorTasks)
              /\ DOMAIN taskGraph.childrenMap = Range(ctorTasks)
              /\ \A t \in Range(ctorTasks) : taskGraph.parentsMap[t] = ctorDependencies[t]
              /\ \A p, c \in Range(ctorTasks) :
                    c \in taskGraph.childrenMap[p] <=> p \in taskGraph.parentsMap[c]

\* a graph of three tasks was constructed in which one task has two children
C33_Witness ==
    /\ taskGraph # NoGraph
    /\ taskGraph.error = "none"
    /\ Len(taskGraph.tasks) = MaxGraphTasks
    /\ \E p \in Range(ctorTasks) : Cardinality(taskGraph.childrenMap[p]) = 2
    /\ \E c \in Range(ctorTasks) : taskGraph.parentsMap[c] = {}

----------------------------------------------------------------------------
(* Vocabulary of the properties of the score functions *)

PhrasesComputed == scoreStep \in {"phrases", "request"}

RemainingNotes == FilterOverlapping(trackNotes, overlappingNoteIds)

NoteEnd(n) == n.position + n.duration

\* the ticks from a (included) to b (excluded)
Ticks(a, b) == {x \in a..b : x < b}

PhraseTicks(ph) == Ticks(ph[1].position, NoteEnd(Last(ph)))

\* the places of the phrase list at which the note with the given id stands
PlacesOf(id) ==
    {<<i, j>> \in (1..Len(phraseNotesList)) \X (1..MaxNotes + 1) :
        j <= Len(phraseNotesList[i]) /\ phraseNotesList[i][j].id = id}

\* no listed note is in a phrase, every other note is in exactly one, the notes
\* of a phrase are contiguous and in the order of the track, and two
\* consecutive phrases are separated by a gap
C34_Partition ==
    /\ \A n \in Range(trackNotes) :
          Cardinality(PlacesOf(n.id)) = IF n.id \in overlappingNoteIds THEN 0 ELSE 1
    /\ \A i \in 1..Len(phraseNotesList) :
          /\ phraseNotesList[i] # <<>>
          /\ Range(phraseNotesList[i]) \subseteq Range(trackNotes)
          /\ \A j \in 1..(Len(phraseNotesList[i]) - 1) :
                phraseNotesList[i][j + 1].position = NoteEnd(phraseNotesList[i][j])
          /\ i < Len(phraseNotesList) =>
                phraseNotesList[i + 1][1].position # NoteEnd(Last(phraseNotesList[i]))
    /\ \A k \in 1..(Len(RemainingNotes) - 1) :
          \A pa \in PlacesOf(RemainingNotes[k].id), pb \in PlacesOf(RemainingNotes[k + 1].id) :
              IF RemainingNotes[k + 1].position = NoteEnd(RemainingNotes[k])
              THEN pb = <<pa[1], pa[2] + 1>>
              ELSE pb = <<pa[1] + 1, 1>>

C34_PhrasesDisjoint ==
    \A i, j \in 1..Len(phraseNotesList) :
        i # j => PhraseTicks(phraseNotesList[i]) \cap PhraseTicks(phraseNotesList[j]) = {}

C34_InPositionOrder ==
    \A k \in 1..(Len(trackNotes) - 1) : trackNotes[k].position <= trackNotes[k + 1].position

C34_RemainingNotesDisjoint ==
    \A a, b \in Range(RemainingNotes) :
        a # b => Ticks(a.position, NoteEnd(a)) \cap Ticks(b.position, NoteEnd(b)) = {}

----------------------------------------------------------------------------
\* the gap before phrase i: the position of its first note, or the distance
\* from the end of the last note of the phrase before
C35_GapBefore(i) ==
    IF i = 1 THEN phraseNotesList[1][1].position
    ELSE phraseNotesList[i][1].position - NoteEnd(Last(phraseNotesList[i - 1]))

C35_Floors(d) ==
    LET raised == IF d >= firstRestMinTicks THEN d ELSE firstRestMinTicks
    IN  IF raised >= 1 THEN raised ELSE 1

C35_Capped(d) == IF d <= Tpqn THEN d ELSE Tpqn

\* C35 as stated: the leading rest of a phrase is the gap before it (for the
\* first phrase the position of its first note, so 0 for a first note at
\* position 0) capped at a quarter note, then raised to the ticks of
\* firstRestMinDurationSeconds and to at least 1 tick.
\* Violated: a first phrase that starts at position 0 gets a quarter note.
C35_AsStated ==
    PhrasesComputed =>
        \A i \in 1..Len(phraseNotesList) :
            /\ phraseFirstRestDurations[i] = C35_Floors(C35_Capped(C35_GapBefore(i)))
            /\ phraseFirstRestDurations[i] >= 1

\* C35: the leading rest of a phrase is the gap before it capped at a quarter
\* note, except that a first phrase whose first note is at position 0 starts
\* from a whole quarter note; the value is then raised to the ticks of
\* firstRestMinDurationSeconds and to at least 1 tick, so it is always >= 1.
C35_LeadingRest ==
    PhrasesComputed =>
        \A i \in 1..Len(phraseNotesList) :
            /\ phraseFirstRestDurations[i] =
                  IF i = 1 /\ phraseNotesList[1][1].position = 0
                  THEN C35_Floors(Tpqn)
                  ELSE C35_Floors(C35_Capped(C35_GapBefore(i)))
            /\ phraseFirstRestDurations[i] >= 1

\* the first phrase starts at position 0, the minimum is below a quarter note,
\* and a second phrase follows a gap longer than a quarter note
C35_Witness ==
    /\ PhrasesComputed
    /\ Len(phraseNotesList) >= 2
    /\ phraseNotesList[1][1].position = 0
    /\ firstRestMinTicks < Tpqn
    /\ C35_GapBefore(2) > Tpqn
    /\ phraseFirstRestDurations = <<Tpqn, Tpqn>>

----------------------------------------------------------------------------
\* the phrase of the last request, and the frames of its parts before the pass
C36_Notes == phraseNotesList[requestArgs.phrase]

C36_Frame(tick) == TickToFrame(tick, requestArgs.ticksPerFrame)

C36_ExpectedTotal ==
    (C36_Frame(NoteEnd(Last(C36_Notes))) - C36_Frame(C36_Notes[1].position))
    + (C36_Frame(C36_Notes[1].position)
       - C36_Frame(C36_Notes[1].position - phraseFirstRestDurations[requestArgs.phrase]))
    + requestArgs.lastRestFrameLength

\* C36 as stated: in the list sent to the engine (leading rest, notes,
\* trailing rest) every frame length is >= 1, and the total number of frames
\* is the rounded frames from the first note's start to the last note's end
\* plus the leading frames plus the trailing frames, for every input.
\* Violated: when the trailing rest is below 1 on its turn, it is raised to 1
\* and nothing is taken back, so the total grows.
C36_AsStated ==
    scoreStep = "request" =>
        /\ \A i \in 1..Len(notesForRequestToEngine) : notesForRequestToEngine[i] >= 1
        /\ Len(notesForRequestToEngine) = Len(C36_Notes) + 2
        /\ Sum(notesForRequestToEngine) = C36_ExpectedTotal

----------------------------------------------------------------------------
\* C37: a runner is used once.  run() dispatches started only on a runner that
\* was not started; a later call of run(), during the run or after it, throws
\* and changes no status, no flag and no event.  requestInterruption() sets the
\* flag only during a run and throws, changing nothing, otherwise.  When the
\* run ends the flag is cleared, so the flag is never set outside a run.
C37_Step ==
    /\ (lastEvent'.type = "started" /\ eventCount' # eventCount) => ~isStarted /\ isStarted'
    /\ (thrown' = "TaskRunner has already been started." /\ thrown' # thrown) =>
          isStarted /\ UNCHANGED <<runnerVars, eventVars, historyVars, rendererVars>>
    /\ (thrown' = "TaskRunner is not currently running." /\ thrown' # thrown) =>
          ~isRunning /\ UNCHANGED <<runnerVars, eventVars, historyVars, rendererVars>>
    /\ (runnerInterruptionRequested' /\ ~runnerInterruptionRequested) => isRunning /\ isRunning'
    /\ (isRunning /\ ~isRunning') => ~runnerInterruptionRequested'

C37_FlagOnlyDuringRun == runnerInterruptionRequested => isRunning

C37_SingleUse == []C37_FlagOnlyDuringRun /\ [][C37_Step]_vars

\* a run was interrupted and is over, and requestInterruption() has thrown
C37_Witness ==
    /\ thrown = "TaskRunner is not currently running."
    /\ isStarted
    /\ ~isRunning
    /\ interrupted
    /\ lastEvent.type = "interrupted"
    /\ ~runnerInterruptionRequested

----------------------------------------------------------------------------
\* C38: an error thrown by a listener of the runner is contained.  When the
\* listener registered by the facade throws on the taskFinished event of a
\* query task (no track is being tracked), the error is caught and logged: the
\* event is still delivered to the other listeners, the task has the status
\* of its result, the loop goes on and run() does not reject; and a render in
\* which that happened ends with complete or interrupted unless the selector
\* made run() reject.
C38_Step ==
    (pc = "settle" /\ pc' # pc /\ current.kind = "query"
        /\ trackIdDuringQueryGeneration = NoTrack) =>
        /\ listenerErrorLogged'
        /\ lastEvent'.type = "taskFinished" /\ lastEvent'.task = current
        /\ eventCount' = eventCount + 1
        /\ runStatus'[current] = result
        /\ taskStatusesAtTaskFinished' = runStatus'
        /\ pc' = "loopTop"
        /\ isRunning'
        /\ ~runRejected'

C38_RenderNotAborted ==
    /\ (listenerErrorLogged /\ ~runRejected) => thrown = "none"
    /\ (listenerErrorLogged /\ ~runRejected /\ pc = "idle") =>
          renderResult \in {"complete", "interrupted"}
    /\ (listenerErrorLogged /\ pc \in {"afterRun", "idle"}) => terminalCount = 1

SchedulerErrors == {"Already started.", "Scheduling has not been started.",
                    "The specified context time is invalid."}

\* new SoundEventScheduler(sequence)
NewScheduler(sequence) ==
    [sequence |-> sequence, isScheduling |-> FALSE, startContextTime |-> 0]

\* a scheduler method returned, or threw err and left the scheduler as s
Returned(s) == [s |-> s, err |-> "none"]
Threw(s, err) == [s |-> s, err |-> err]

\* the next call on the scheduler is made only if the previous one returned
AndThen(r, Op(_)) == IF r.err # "none" THEN r ELSE Op(r.s)

\* list.forEach(Op): an exception ends the loop and leaves the rest untouched
ForEach(list, Op(_)) ==
    LET r == [i \in 1..Len(list) |-> Op(list[i])]
        bad == {i \in 1..Len(list) : r[i].err # "none"}
        first == IF bad = {} THEN Len(list) + 1
                 ELSE CHOOSE i \in bad : \A j \in bad : i <= j
    IN  [list |-> [i \in 1..Len(list) |-> IF i <= first THEN r[i].s ELSE list[i]],
         err |-> IF bad = {} THEN "none" ELSE r[first].err]

startScheduling(s, contextTime, time) ==
    IF s.isScheduling THEN Threw(s, "Already started.")
    ELSE Returned([s EXCEPT !.isScheduling = TRUE, !.startContextTime = contextTime])

SchedulerScheduleEvents(s, contextTime) ==
    IF ~s.isScheduling THEN Threw(s, "Scheduling has not been started.")
    ELSE IF contextTime < s.startContextTime
         THEN Threw(s, "The specified context time is invalid.")
         ELSE Returned(s)

\* a stopScheduling that forgets to clear the flag
stopSchedulingKeepingFlag(s) ==
    IF ~s.isScheduling THEN Threw(s, "Scheduling has not been started.")
    ELSE Returned(s)

\* stopScheduling: sequence.scheduleStop, then the flag is cleared
stopScheduling(s) ==
    IF ~s.isScheduling THEN Threw(s, "Scheduling has not been started.")
    ELSE Returned([s EXCEPT !.isScheduling = FALSE])

\* the Transport after its constructor
NewTransport(loopStartTime, loopEndTime) ==
    [state |-> "stopped", time |-> 0, loop |-> FALSE,
     loopStartTime |-> loopStartTime, loopEndTime |-> loopEndTime,
     schedulers |-> <<>>, startContextTime |-> 0, startTime |-> 0,
     scheduledContextTime |-> 0, schedulersToBeStopped |-> <<>>,
     scheduledLoopEvents |-> <<>>,
     error |-> "none",       \* what the last call on the transport threw
     leaked |-> FALSE]       \* a scheduler was forgotten while it was scheduling

SomeScheduling(list) == \E i \in 1..Len(list) : list[i].isScheduling

\* calculateTime: the time, the loop events left after the shifts, and the error
calculateTime(t, contextTime) ==
    IF contextTime >= t.startContextTime
    THEN [time |-> t.startTime + (contextTime - t.startContextTime),
          events |-> t.scheduledLoopEvents, err |-> "none"]
    ELSE LET events == t.scheduledLoopEvents
             later == {i \in 1..Len(events) : contextTime < events[i].contextTime}
         IN  IF later = {}
             THEN [time |-> 0, events |-> <<>>,
                   err |-> "Loop events are not scheduled correctly."]
             ELSE LET first == CHOOSE i \in later : \A j \in later : i <= j
                  IN  [time |-> events[first].timeBeforeLoop
                                  - (events[first].contextTime - contextTime),
                       events |-> SubSeq(events, first, Len(events)),
                       err |-> "none"]

scheduleSoundEvents(t, contextTime, time) ==
    LET stopped == ForEach(t.schedulersToBeStopped, LAMBDA s : stopScheduling(s))
    IN  IF stopped.err # "none"
        THEN [t EXCEPT !.schedulersToBeStopped = stopped.list, !.error = stopped.err]
        ELSE LET scheduled ==
                     ForEach(t.schedulers,
                             LAMBDA s :
                                 IF contextTime < t.startContextTime
                                 THEN IF ~s.isScheduling
                                      THEN AndThen(startScheduling(s, t.startContextTime,
                                                                   t.startTime),
                                                   LAMBDA x : SchedulerScheduleEvents(
                                                                  x, t.startContextTime))
                                      ELSE Returned(s)
                                 ELSE AndThen(IF ~s.isScheduling
                                              THEN startScheduling(s, contextTime, time)
                                              ELSE Returned(s),
                                              LAMBDA x : SchedulerScheduleEvents(x, contextTime)))
             IN  [t EXCEPT !.schedulersToBeStopped = <<>>,
                           !.schedulers = scheduled.list,
                           !.error = scheduled.err]

\* the while loop of scheduleLoopEvents
RECURSIVE LoopEventsLoop(_, _, _)
LoopEventsLoop(t, contextTime, contextTimeToLoop) ==
    IF \/ t.error # "none"
       \/ ~(contextTimeToLoop >= contextTime /\ contextTimeToLoop < contextTime + LookAhead)
    THEN t
    ELSE LET t1 == [t EXCEPT !.scheduledLoopEvents =
                                 Append(@, [contextTime |-> contextTimeToLoop,
                                            timeBeforeLoop |-> t.loopEndTime,
                                            timeAfterLoop |-> t.loopStartTime]),
                             !.startContextTime = contextTimeToLoop,
                             !.startTime = t.loopStartTime]
             restarted ==
                 ForEach(t1.schedulers,
                         LAMBDA s :
                             AndThen(AndThen(IF s.isScheduling THEN stopScheduling(s)
                                             ELSE Returned(s),
                                             LAMBDA x : startScheduling(x, t1.startContextTime,
                                                                        t1.startTime)),
                                     LAMBDA x : SchedulerScheduleEvents(x, t1.startContextTime)))
         IN  LoopEventsLoop([t1 EXCEPT !.schedulers = restarted.list,
                                       !.error = restarted.err],
                            contextTime,
                            contextTimeToLoop + (t.loopEndTime - t.loopStartTime))

scheduleLoopEvents(t, contextTime) ==
    IF ~t.loop \/ t.loopEndTime <= t.loopStartTime \/ t.startTime >= t.loopEndTime
    THEN t
    ELSE LET contextTimeToLoop == t.startContextTime + (t.loopEndTime - t.startTime)
         IN  IF contextTimeToLoop < t.scheduledContextTime
             THEN t
             ELSE LoopEventsLoop(t, contextTime, Max(contextTimeToLoop, contextTime))

\* Transport.scheduleEvents
TransportScheduleEvents(t, contextTime) ==
    LET c == calculateTime(t, contextTime)
        t0 == [t EXCEPT !.scheduledLoopEvents = c.events]
    IN  IF c.err # "none"
        THEN [t0 EXCEPT !.error = c.err]
        ELSE LET t1 == scheduleSoundEvents(t0, contextTime, c.time)
                 t2 == IF t1.error # "none" THEN t1 ELSE scheduleLoopEvents(t1, contextTime)
             IN  IF t2.error # "none" THEN t2
                 ELSE [t2 EXCEPT !.scheduledContextTime = contextTime + LookAhead]

start(t, contextTime) ==
    IF t.state = "started" THEN t
    ELSE TransportScheduleEvents(
             [t EXCEPT !.state = "started",
                       !.startContextTime = contextTime,
                       !.startTime = t.time,
                       !.scheduledContextTime = contextTime,
                       !.leaked = (@ \/ SomeScheduling(t.schedulersToBeStopped)),
                       !.schedulersToBeStopped = <<>>,
                       !.scheduledLoopEvents = <<>>],
             contextTime)

\* a stop() that leaves the replaced schedulers alone
stopHeldOnly(t, contextTime) ==
    IF t.state = "stopped" THEN t
    ELSE LET c == calculateTime(t, contextTime)
             t0 == [t EXCEPT !.scheduledLoopEvents = c.events]
         IN  IF c.err # "none"
             THEN [t0 EXCEPT !.error = c.err]
             ELSE LET held == ForEach(t0.schedulers,
                                      LAMBDA s : IF s.isScheduling THEN stopScheduling(s)
                                                 ELSE Returned(s))
                  IN  [t0 EXCEPT !.time = c.time, !.state = "stopped",
                                 !.schedulers = held.list, !.error = held.err]

stop(t, contextTime) ==
    IF t.state = "stopped" THEN t
    ELSE LET c == calculateTime(t, contextTime)
             t0 == [t EXCEPT !.scheduledLoopEvents = c.events]
         IN  IF c.err # "none"
             THEN [t0 EXCEPT !.error = c.err]
             ELSE LET held == ForEach(t0.schedulers,
                                      LAMBDA s : IF s.isScheduling THEN stopScheduling(s)
                                                 ELSE Returned(s))
                      t1 == [t0 EXCEPT !.time = c.time, !.state = "stopped",
                                       !.schedulers = held.list, !.error = held.err]
                  IN  IF held.err # "none" THEN t1
                      ELSE LET replaced == ForEach(t1.schedulersToBeStopped,
                                                   LAMBDA s : stopScheduling(s))
                           IN  [t1 EXCEPT !.schedulersToBeStopped = replaced.list,
                                          !.error = replaced.err]

\* get time
getTime(t, contextTime) ==
    IF t.state = "started"
    THEN LET c == calculateTime(t, contextTime)
         IN  IF c.err # "none"
             THEN [t EXCEPT !.scheduledLoopEvents = c.events, !.error = c.err]
             ELSE [t EXCEPT !.scheduledLoopEvents = c.events, !.time = c.time]
    ELSE t

\* set time
setTime(t, contextTime, value) ==
    IF t.state = "started"
    THEN LET t1 == stop(t, contextTime)
         IN  IF t1.error # "none" THEN t1
             ELSE start([t1 EXCEPT !.time = value], contextTime)
    ELSE [t EXCEPT !.time = value]

\* the index of the first scheduler of the sequence, 0 for -1
FindIndex(list, sequence) ==
    LET found == {i \in 1..Len(list) : list[i].sequence = sequence}
    IN  IF found = {} THEN 0 ELSE CHOOSE i \in found : \A j \in found : i <= j

\* list.splice(index, 1)
Splice(list, index) == [i \in 1..(Len(list) - 1) |-> IF i < index THEN list[i] ELSE list[i + 1]]

addSequence(t, sequence) ==
    IF FindIndex(t.schedulers, sequence) # 0
    THEN t      \* throws before anything is touched
    ELSE [t EXCEPT !.schedulers = Append(@, NewScheduler(sequence))]

replaceSequence(t, sequence, newSequence) ==
    LET index == FindIndex(t.schedulers, sequence)
    IN  IF index = 0
        THEN t      \* throws before anything is touched
        ELSE LET removedScheduler == t.schedulers[index]
             IN  [t EXCEPT !.schedulers = Append(Splice(@, index), NewScheduler(newSequence)),
                           !.schedulersToBeStopped =
                               IF removedScheduler.isScheduling
                               THEN Append(@, removedScheduler) ELSE @]

removeSequence(t, sequence) ==
    LET index == FindIndex(t.schedulers, sequence)
    IN  IF index = 0
        THEN t      \* throws before anything is touched
        ELSE LET removedScheduler == t.schedulers[index]
                 r == IF removedScheduler.isScheduling THEN stopScheduling(removedScheduler)
                      ELSE Returned(removedScheduler)
             IN  [t EXCEPT !.schedulers = Splice(@, index),
                           !.error = r.err,
                           !.leaked = (@ \/ r.s.isScheduling)]

\* a call on the transport starts with nothing thrown
Called == [transport EXCEPT !.error = "none"]

nonTransportVars == <<scoreVars, graphVars, snapshotVars, rendererVars, runnerVars, eventVars,
                      historyVars, listenerVars, recordEvents, generatedTasks, thrown>>

TransportStart ==
    /\ transport' = start(Called, currentTime)
    /\ UNCHANGED <<currentTime, nonTransportVars>>

TransportStop ==
    /\ transport' = stop(Called, currentTime)
    /\ UNCHANGED <<currentTime, nonTransportVars>>

TransportGetTime ==
    /\ transport' = getTime(Called, currentTime)
    /\ UNCHANGED <<currentTime, nonTransportVars>>

TransportSetTime ==
    /\ \E value \in 0..MaxSetTime : transport' = setTime(Called, currentTime, value)
    /\ UNCHANGED <<currentTime, nonTransportVars>>

TransportSetLoop ==
    /\ \E value \in BOOLEAN : transport' = [Called EXCEPT !.loop = value]
    /\ UNCHANGED <<currentTime, nonTransportVars>>

\* (replaceSequence can leave two schedulers for one sequence, so the number
\* of schedulers is capped here)
TransportAddSequence ==
    /\ Len(transport.schedulers) < MaxSequences
    /\ \E sequence \in 1..MaxSequences : transport' = addSequence(Called, sequence)
    /\ UNCHANGED <<currentTime, nonTransportVars>>

TransportReplaceSequence ==
    /\ Len(transport.schedulersToBeStopped) < MaxToBeStopped
    /\ \E sequence \in 1..MaxSequences, newSequence \in 1..MaxSequences :
          transport' = replaceSequence(Called, sequence, newSequence)
    /\ UNCHANGED <<currentTime, nonTransportVars>>

TransportRemoveSequence ==
    /\ \E sequence \in 1..MaxSequences : transport' = removeSequence(Called, sequence)
    /\ UNCHANGED <<currentTime, nonTransportVars>>

\* the callback of the Timer
TimerTick ==
    /\ transport' = IF transport.state = "started"
                    THEN TransportScheduleEvents(Called, currentTime)
                    ELSE transport
    /\ UNCHANGED <<currentTime, nonTransportVars>>

\* the clock of the AudioContext never goes back
AudioClockAdvances ==
    /\ \E t \in (currentTime + 1)..MaxClock : currentTime' = t
    /\ UNCHANGED <<transport, nonTransportVars>>

InitTransport ==
    /\ \E loopEndTime \in 0..MaxLoopTime : transport = NewTransport(0, loopEndTime)
    /\ currentTime = 0
    /\ phraseCount = <<0>>
    /\ singer = <<FALSE>>
    /\ selectorKind = "stub"
    /\ recordEvents = FALSE
    /\ InitRenderer
    /\ NoTaskGraph
    /\ NoScore

NextTransport ==
    \/ TransportStart
    \/ TransportStop
    \/ TransportGetTime
    \/ TransportSetTime
    \/ TransportSetLoop
    \/ TransportAddSequence
    \/ TransportReplaceSequence
    \/ TransportRemoveSequence
    \/ TimerTick
    \/ AudioClockAdvances

SpecTransport == InitTransport /\ [][NextTransport]_vars

\* C39: the transport never violates a precondition of a scheduler.  In every
\* reachable state, the last call on the transport did not end in one of the
\* three errors a SoundEventScheduler throws: startScheduling on a scheduler
\* that is scheduling, scheduleEvents or stopScheduling on one that is not, or
\* scheduleEvents with a context time before the scheduler's start context time.
C39_NoSchedulerPreconditionViolated ==
    transport.error \notin SchedulerErrors

\* a started transport whose clock has passed a scheduled loop: every held
\* scheduler was restarted at the loop and driven again by a later timer tick,
\* and a replaced scheduler waits to be stopped; no call has thrown
C39_Witness ==
    /\ transport.state = "started"
    /\ transport.error = "none"
    /\ transport.scheduledLoopEvents # <<>>
    /\ transport.startContextTime > 0
    /\ currentTime > transport.startContextTime
    /\ transport.scheduledContextTime = currentTime + LookAhead
    /\ Len(transport.schedulers) = MaxSequences
    /\ \E i \in 1..Len(transport.schedulers) :
          /\ transport.schedulers[i].isScheduling
          /\ transport.schedulers[i].startContextTime = transport.startContextTime
    /\ transport.schedulersToBeStopped # <<>>

\* C40: a stopped transport has stopped every scheduler.  In every reachable
\* state whose transport is "stopped", no scheduler the transport holds and no
\* scheduler it has replaced or removed is scheduling (none was forgotten
\* while scheduling); start() on a started transport and stop() on a stopped
\* transport return the transport unchanged.
C40_NoneScheduling ==
    transport.state = "stopped" =>
        /\ ~SomeScheduling(transport.schedulers)
        /\ ~SomeScheduling(transport.schedulersToBeStopped)
        /\ ~transport.leaked

C40_RepeatedCallsChangeNothing ==
    /\ transport.state = "started" => start(transport, currentTime) = transport
    /\ transport.state = "stopped" => stop(transport, currentTime) = transport

C40_StoppedTransport ==
    /\ C40_NoneScheduling
    /\ C40_RepeatedCallsChangeNothing

\* stop() was called on a started transport that held schedulers started at
\* a loop and a replaced scheduler still waiting to be stopped
C40_Witness ==
    /\ transport.state = "stopped"
    /\ transport.error = "none"
    /\ transport.schedulersToBeStopped # <<>>
    /\ Len(transport.schedulers) = MaxSequences
    /\ \E i \in 1..Len(transport.schedulers) :
          transport.schedulers[i].startContextTime > 0
    /\ transport.scheduledLoopEvents # <<>>
    /\ transport.time > 0
====
